---- MODULE Spec2Model ----
(***************************************************************************)
(* s3lazy: a lazy-loading (cache-aside) S3 proxy.                          *)
(*                                                                         *)
(* LazyBackend wraps a local gofakes3.Backend (the cache store) and an AWS *)
(* S3 client (the origin).  The model holds the two stores, the bucket     *)
(* mapping, and for every client the position of its call inside the       *)
(* handler it is running: every call a handler makes on a store is one     *)
(* step, so that the calls of one handler are ordered as in the code.      *)
(***************************************************************************)
EXTENDS Integers, Sequences, FiniteSets, TLC

\* Largest payload length, in bytes, of the objects of the model.
MaxSize == 2

Buckets == {"dev", "prod"}
Keys == {"k"}
Clients == {"c1", "c2"}
MainClient == "c1"

\* A nil *string of the SDK (no Content-Type, no ETag, no metadata entry).
NoValue == "<nil>"

(***************************************************************************)
(* Objects.  A payload of n bytes is <<1, ..., n>>; the content type and   *)
(* the user metadata entry of the objects of the model follow from n, so   *)
(* that objects of different sizes differ in all three.                    *)
(***************************************************************************)
Payload(n) == [i \in 1..n |-> i]

ContentTypeOf(n) ==
    CASE n % 3 = 1 -> "text/plain"
      [] n % 3 = 2 -> NoValue
      [] OTHER -> "application/octet-stream"

UserMetaOf(n) == IF n % 2 = 1 THEN "owner=a" ELSE NoValue

\* The ETag of a payload: an MD5 digest, never empty; modelled as the tagged payload.
ETagOf(body) == <<"md5">> \o body

Absent == [present |-> FALSE]
Stored(body, ct, um) == [present |-> TRUE, body |-> body, ContentType |-> ct, user |-> um]
SampleObject(n) == Stored(Payload(n), ContentTypeOf(n), UserMetaOf(n))
SampleObjects == {SampleObject(n) : n \in 1..MaxSize}

\* A store's content: objects live only in buckets that exist.
StoreContents(bs) ==
    {f \in [Buckets \X Keys -> SampleObjects \cup {Absent}] :
        \A b \in Buckets, k \in Keys : f[<<b, k>>].present => b \in bs}

EmptyStoreContents == [bk \in Buckets \X Keys |-> Absent]

(***************************************************************************)
(* Range requests (gofakes3.ObjectRangeRequest) and the HTTP Range header  *)
(* LocalStackBackend.GetObject builds from them.                           *)
(***************************************************************************)
NoRange == [set |-> FALSE, FromEnd |-> FALSE, Start |-> 0, End |-> 0]
AbsRange(s, e) == [set |-> TRUE, FromEnd |-> FALSE, Start |-> s, End |-> e]
EndRange(n) == [set |-> TRUE, FromEnd |-> TRUE, Start |-> 0, End |-> n]
RangeRequests == {NoRange, AbsRange(1, 1), EndRange(1)}

Min(a, b) == IF a < b THEN a ELSE b

RangeSatisfiable(r, size) ==
    \/ ~r.set
    \/ r.FromEnd /\ r.End > 0 /\ size > 0
    \/ ~r.FromEnd /\ r.Start < size /\ r.Start <= r.End

\* Mutant: the Range header is not sent; the whole body comes back.
RangeOf_whole(body, r) == body

\* The bytes a satisfiable range selects ("bytes=-N" or "bytes=S-E").
RangeOf(body, r) ==
    IF ~r.set THEN body
    ELSE IF r.FromEnd
         THEN SubSeq(body, Len(body) - Min(r.End, Len(body)) + 1, Len(body))
         ELSE SubSeq(body, r.Start + 1, Min(r.End, Len(body) - 1) + 1)

(***************************************************************************)
(* Errors.  AWS SDK errors carry an API error code or none (a transport    *)
(* fault); gofakes3 errors are ErrorResponses with a code and a resource,  *)
(* or bare ErrorCodes.                                                     *)
(***************************************************************************)
NoError == [kind |-> "nil", code |-> "", name |-> ""]
SdkApiError(code) == [kind |-> "smithy.APIError", code |-> code, name |-> ""]
SdkTransportError == [kind |-> "transport", code |-> "", name |-> "connection refused"]
IoError == [kind |-> "io", code |-> "", name |-> "input/output error"]

BucketNotFound(bucket) == [kind |-> "ErrorResponse", code |-> "NoSuchBucket", name |-> bucket]
KeyNotFound(key) == [kind |-> "ErrorResponse", code |-> "NoSuchKey", name |-> key]
ErrorCode(code) == [kind |-> "ErrorCode", code |-> code, name |-> ""]

\* fmt.Errorf("failed to cache %s/%s: %w", bucketName, objectName, err)
FailedToCache(bucket, key, err) ==
    [kind |-> "wrapError", code |-> "", name |-> "failed to cache",
     bucket |-> bucket, key |-> key, cause |-> err]

\* gofakes3.HasErrorCode: the error itself must carry the code (no unwrapping).
HasErrorCode(err, code) ==
    /\ err.kind \in {"ErrorResponse", "ErrorCode"}
    /\ err.code = code

s3ErrorCode(err) == IF err.kind = "smithy.APIError" THEN err.code ELSE ""

\* Mutant: an error without a code becomes a generic InternalError.
s3ErrorToGofakes3_opaque(err, bucketName, objectName) ==
    IF err = NoError THEN NoError
    ELSE IF s3ErrorCode(err) = "" THEN ErrorCode("InternalError")
    ELSE CASE s3ErrorCode(err) = "NoSuchBucket" -> BucketNotFound(bucketName)
           [] s3ErrorCode(err) = "NoSuchKey" -> KeyNotFound(objectName)
           [] OTHER -> ErrorCode(s3ErrorCode(err))

s3ErrorToGofakes3(err, bucketName, objectName) ==
    IF err = NoError THEN NoError
    ELSE IF s3ErrorCode(err) = "" THEN err
    ELSE CASE s3ErrorCode(err) = "NoSuchBucket" -> BucketNotFound(bucketName)
           [] s3ErrorCode(err) = "NoSuchKey" -> KeyNotFound(objectName)
           [] OTHER -> ErrorCode(s3ErrorCode(err))

\* Mutant: every error of the cache store counts as an absence.
isNotFound_anyError(err) == err # NoError

\* Mutant: the generic NotFound of a HEAD counts as an absence too.
isNotFound_withGeneric(err) ==
    \/ HasErrorCode(err, "NoSuchKey")
    \/ HasErrorCode(err, "NoSuchBucket")
    \/ HasErrorCode(err, "NotFound")

isNotFound(err) ==
    \/ HasErrorCode(err, "NoSuchKey")
    \/ HasErrorCode(err, "NoSuchBucket")

(***************************************************************************)
(* State.                                                                  *)
(***************************************************************************)
VARIABLES
    backend,        \* cfg.BackendType: which store createLocalBackend built
    localBuckets,   \* the cache store: its buckets
    localObjects,   \* the cache store: (bucket, key) -> object
    awsBuckets,     \* the origin: its buckets
    awsObjects,     \* the origin: (bucket, key) -> object
    bucketMapping,  \* LazyBackend.bucketMapping: local bucket -> origin bucket
    mu,             \* LazyBackend.mu: "unlocked", or "Lock" while SetBucketMappings holds it
    setter,         \* the SetBucketMappings call in progress, if any
    pc,             \* per client: the position inside the handler it runs
    req,            \* per client: the call it made
    ret,            \* per client: what its last call returned
    awsObj,         \* per client: the origin's answer held by a GetObject in flight
    awsBucket,      \* per client: the origin bucket awsBucketName gave its current call
    localCalls,     \* per client: the cache-store calls of its current call
    awsCalls,       \* per client: the origin calls of its current call
    pre,            \* per client: the cache store when its current call began
    main,           \* the main goroutine: its position, environment, config file and cfg
    open,           \* per client: the payload streams its current call opened and still owes a Close
    fdb,            \* a LocalStackBackend.ForceDeleteBucket call, request by request
    shutdown        \* the HTTP server, the quit and done channels, the signal goroutine, the process

vars == <<backend, localBuckets, localObjects, awsBuckets, awsObjects, bucketMapping, mu, setter, pc, req, ret, awsObj, awsBucket, localCalls, awsCalls, pre, main, open, fdb, shutdown>>

storeVars == <<localBuckets, localObjects>>
originVars == <<awsBuckets, awsObjects>>
mappingVars == <<bucketMapping, mu, setter>>
frameVars == <<pc, req, ret, awsObj, awsBucket, localCalls, awsCalls, pre>>

BackendTypes == {"local", "localstack"}

\* Faults a store call can meet whatever the store holds.
Faults == {"none", "InternalError", "transport"}

(***************************************************************************)
(* An S3 service as the SDK client sees it: the origin, and the service    *)
(* behind LocalStackBackend.                                               *)
(***************************************************************************)
NoOutput == [Body |-> <<>>, ContentLength |-> 0, ContentType |-> NoValue,
             Metadata |-> NoValue, ETag |-> <<>>]

FaultError(fault) ==
    IF fault = "transport" THEN SdkTransportError ELSE SdkApiError(fault)

S3GetObject(bs, objs, bucket, key, range, fault) ==
    LET o == objs[<<bucket, key>>] IN
    IF fault # "none" THEN [err |-> FaultError(fault), out |-> NoOutput]
    ELSE IF bucket \notin bs THEN [err |-> SdkApiError("NoSuchBucket"), out |-> NoOutput]
    ELSE IF ~o.present THEN [err |-> SdkApiError("NoSuchKey"), out |-> NoOutput]
    ELSE IF ~RangeSatisfiable(range, Len(o.body))
         THEN [err |-> SdkApiError("InvalidRange"), out |-> NoOutput]
    ELSE [err |-> NoError,
          out |-> [Body |-> RangeOf(o.body, range),
                   ContentLength |-> Len(RangeOf(o.body, range)),
                   ContentType |-> o.ContentType,
                   Metadata |-> o.user,
                   ETag |-> ETagOf(o.body)]]

\* A HEAD answer has no body: a missing bucket and a missing key both give a bare 404.
S3HeadObject(bs, objs, bucket, key, fault) ==
    LET o == objs[<<bucket, key>>] IN
    IF fault # "none" THEN [err |-> FaultError(fault), out |-> NoOutput]
    ELSE IF bucket \notin bs \/ ~o.present
         THEN [err |-> SdkApiError("NotFound"), out |-> NoOutput]
    ELSE [err |-> NoError,
          out |-> [Body |-> <<>>,
                   ContentLength |-> Len(o.body),
                   ContentType |-> o.ContentType,
                   Metadata |-> o.user,
                   ETag |-> ETagOf(o.body)]]

(***************************************************************************)
(* gofakes3.Object, and the two cache stores behind gofakes3.Backend.      *)
(***************************************************************************)
NoObject == [Name |-> NoValue]
Object(name, ct, um, size, contents, hash) ==
    [Name |-> name, Metadata |-> [ContentType |-> ct, user |-> um],
     Size |-> size, Contents |-> contents, Hash |-> hash]

NilMeta == [ContentType |-> NoValue, user |-> NoValue]

\* Listing prefixes: none (every key), and one no key of the model starts with.
NoPrefix == ""
Prefixes == {NoPrefix, "z"}
KeyLists == SUBSET Keys
ForceDeleteStages == {"list", "delete", "bucket"}

\* gofakes3.ObjectList: the key and size of every object of the bucket under the prefix.
ListedContents(objs, name, prefix) ==
    {[Key |-> k, Size |-> Len(objs[<<name, k>>].body)] :
        k \in {x \in Keys : objs[<<name, x>>].present /\ prefix = NoPrefix}}

getOutputToObject(objectName, out) ==
    Object(objectName, out.ContentType, out.Metadata, out.ContentLength, out.Body, out.ETag)

headOutputToObject(objectName, out) ==
    Object(objectName, out.ContentType, out.Metadata, out.ContentLength, <<>>, out.ETag)

LocalStackBackend_GetObject(bucketName, objectName, rangeRequest, fault) ==
    LET r == S3GetObject(localBuckets, localObjects, bucketName, objectName,
                         rangeRequest, fault) IN
    IF r.err # NoError
    THEN [err |-> s3ErrorToGofakes3(r.err, bucketName, objectName), obj |-> NoObject]
    ELSE [err |-> NoError, obj |-> getOutputToObject(objectName, r.out)]

\* Mutant: the existence check's generic not-found is reported as a missing key.
LocalStackBackend_HeadObject_keyNotFound(bucketName, objectName, fault) ==
    LET r == S3HeadObject(localBuckets, localObjects, bucketName, objectName, fault) IN
    IF r.err # NoError
    THEN [err |-> IF s3ErrorCode(r.err) = "NotFound"
                  THEN KeyNotFound(objectName)
                  ELSE s3ErrorToGofakes3(r.err, bucketName, objectName),
          obj |-> NoObject]
    ELSE [err |-> NoError, obj |-> headOutputToObject(objectName, r.out)]

LocalStackBackend_HeadObject(bucketName, objectName, fault) ==
    LET r == S3HeadObject(localBuckets, localObjects, bucketName, objectName, fault) IN
    IF r.err # NoError
    THEN [err |-> s3ErrorToGofakes3(r.err, bucketName, objectName), obj |-> NoObject]
    ELSE [err |-> NoError, obj |-> headOutputToObject(objectName, r.out)]

\* Only the Content-Type of meta reaches the service.
LocalStackBackend_PutObject(bucketName, objectName, meta, input, size, fault) ==
    IF fault # "none"
    THEN [err |-> s3ErrorToGofakes3(FaultError(fault), bucketName, objectName),
          objects |-> localObjects]
    ELSE IF bucketName \notin localBuckets
    THEN [err |-> s3ErrorToGofakes3(SdkApiError("NoSuchBucket"), bucketName, objectName),
          objects |-> localObjects]
    ELSE [err |-> NoError,
          objects |-> [localObjects EXCEPT ![<<bucketName, objectName>>] =
                          Stored(input, meta.ContentType, NoValue)]]

LocalStackBackend_CopyObject(srcBucket, srcKey, dstBucket, dstKey, meta, fault) ==
    LET src == localObjects[<<srcBucket, srcKey>>] IN
    IF fault # "none"
    THEN [err |-> s3ErrorToGofakes3(FaultError(fault), "", ""), objects |-> localObjects]
    ELSE IF srcBucket \notin localBuckets \/ dstBucket \notin localBuckets
    THEN [err |-> s3ErrorToGofakes3(SdkApiError("NoSuchBucket"), "", ""),
          objects |-> localObjects]
    ELSE IF ~src.present
    THEN [err |-> s3ErrorToGofakes3(SdkApiError("NoSuchKey"), "", ""),
          objects |-> localObjects]
    ELSE [err |-> NoError,
          objects |-> [localObjects EXCEPT ![<<dstBucket, dstKey>>] = src]]

LocalStackBackend_DeleteObject(bucketName, objectName, fault) ==
    IF fault # "none"
    THEN [err |-> s3ErrorToGofakes3(FaultError(fault), bucketName, objectName),
          objects |-> localObjects]
    ELSE IF bucketName \notin localBuckets
    THEN [err |-> s3ErrorToGofakes3(SdkApiError("NoSuchBucket"), bucketName, objectName),
          objects |-> localObjects]
    ELSE [err |-> NoError,
          objects |-> [localObjects EXCEPT ![<<bucketName, objectName>>] = Absent]]

LocalStackBackend_CreateBucket(name, fault) ==
    IF fault # "none"
    THEN [err |-> s3ErrorToGofakes3(FaultError(fault), name, ""), buckets |-> localBuckets]
    ELSE IF name \in localBuckets
    THEN [err |-> s3ErrorToGofakes3(SdkApiError("BucketAlreadyOwnedByYou"), name, ""),
          buckets |-> localBuckets]
    ELSE [err |-> NoError, buckets |-> localBuckets \cup {name}]

LocalStackBackend_DeleteBucket(name, fault) ==
    IF fault # "none"
    THEN [err |-> s3ErrorToGofakes3(FaultError(fault), name, ""), buckets |-> localBuckets]
    ELSE IF name \notin localBuckets
    THEN [err |-> s3ErrorToGofakes3(SdkApiError("NoSuchBucket"), name, ""),
          buckets |-> localBuckets]
    ELSE IF \E k \in Keys : localObjects[<<name, k>>].present
    THEN [err |-> s3ErrorToGofakes3(SdkApiError("BucketNotEmpty"), name, ""),
          buckets |-> localBuckets]
    ELSE [err |-> NoError, buckets |-> localBuckets \ {name}]

\* The names of the buckets. An entry without a name or a creation date is skipped;
\* the service gives both.
LocalStackBackend_ListBuckets(fault) ==
    IF fault # "none"
    THEN [err |-> s3ErrorToGofakes3(FaultError(fault), "", ""), obj |-> NoObject]
    ELSE [err |-> NoError, obj |-> localBuckets]

\* ListObjectsV2 with the prefix when prefix.HasPrefix: the keys and sizes of the page.
LocalStackBackend_ListBucket(name, prefix, fault) ==
    IF fault # "none"
    THEN [err |-> s3ErrorToGofakes3(FaultError(fault), name, ""), obj |-> NoObject]
    ELSE IF name \notin localBuckets
    THEN [err |-> s3ErrorToGofakes3(SdkApiError("NoSuchBucket"), name, ""), obj |-> NoObject]
    ELSE [err |-> NoError, obj |-> ListedContents(localObjects, name, prefix)]

\* HeadBucket: NoSuchBucket and NotFound mean (false, nil).
LocalStackBackend_BucketExists(name, fault) ==
    IF fault # "none"
    THEN [err |-> s3ErrorToGofakes3(FaultError(fault), name, ""), obj |-> FALSE]
    ELSE [err |-> NoError, obj |-> name \in localBuckets]

\* The listing, the deletion of the listed objects when there are any, then the
\* bucket delete; the first failing stage ends the call.
LocalStackBackend_ForceDeleteBucket(name, fault, stage) ==
    LET cleared == [bk \in Buckets \X Keys |->
                       IF bk[1] = name THEN Absent ELSE localObjects[bk]]
        listed == \E k \in Keys : localObjects[<<name, k>>].present
        fails(st) == fault # "none" /\ stage = st
        failure == s3ErrorToGofakes3(FaultError(fault), name, "") IN
    IF fails("list")
    THEN [err |-> failure, buckets |-> localBuckets, objects |-> localObjects]
    ELSE IF name \notin localBuckets
    THEN [err |-> s3ErrorToGofakes3(SdkApiError("NoSuchBucket"), name, ""),
          buckets |-> localBuckets, objects |-> localObjects]
    ELSE IF listed /\ fails("delete")
    THEN [err |-> failure, buckets |-> localBuckets, objects |-> localObjects]
    ELSE IF fails("bucket")
    THEN [err |-> failure, buckets |-> localBuckets, objects |-> cleared]
    ELSE [err |-> NoError, buckets |-> localBuckets \ {name}, objects |-> cleared]

\* One DeleteObjects request with every key given.
LocalStackBackend_DeleteMulti(bucketName, objects, fault) ==
    IF fault # "none"
    THEN [err |-> s3ErrorToGofakes3(FaultError(fault), bucketName, ""),
          objects |-> localObjects]
    ELSE IF bucketName \notin localBuckets
    THEN [err |-> s3ErrorToGofakes3(SdkApiError("NoSuchBucket"), bucketName, ""),
          objects |-> localObjects]
    ELSE [err |-> NoError,
          objects |-> [bk \in Buckets \X Keys |->
                          IF bk[1] = bucketName /\ bk[2] \in objects
                          THEN Absent ELSE localObjects[bk]]]

(***************************************************************************)
(* LocalStackBackend.ForceDeleteBucket request by request, on a bucket of   *)
(* the service that holds up to NumKeys objects.  Keys are numbered in the  *)
(* order in which ListObjectsV2 lists them; a page has at most MaxKeys.    *)
(***************************************************************************)
MaxKeys == 2
NumKeys == 4
PageKeys == 1..NumKeys
NoToken == 0

NoForceDelete == [pc |-> "none", name |-> "", exists |-> FALSE, keys |-> {},
                  firstPage |-> TRUE, nextToken |-> NoToken, page |-> {},
                  requests |-> <<>>, err |-> NoError]

\* ListObjectsV2: the first MaxKeys keys after the continuation token, and the
\* token of the next page when keys are left over.
ListObjectsV2(keys, token) ==
    LET rest == {k \in keys : k > token}
        contents == {k \in rest : Cardinality({j \in rest : j < k}) < MaxKeys}
        truncated == contents # rest IN
    [Contents |-> contents,
     NextContinuationToken |->
         IF truncated THEN CHOOSE k \in contents : \A j \in contents : j <= k ELSE NoToken]

\* Mutant: the paginator gives the first page and no more.
HasMorePages_firstPageOnly(f) == f.firstPage

\* paginator.HasMorePages(): the first page, then as long as the last page
\* carried a continuation token.
HasMorePages(f) == f.firstPage \/ f.nextToken # NoToken

ForceDeleteBucket_request(op, keys, err) == [op |-> op, keys |-> keys, err |-> err]

\* page, err := paginator.NextPage(ctx); an error is translated and returned.
ForceDeleteBucket_NextPage ==
    /\ fdb.pc = "paginator"
    /\ HasMorePages(fdb)
    /\ \E fault \in Faults :
          LET sdkErr == IF fault # "none" THEN FaultError(fault)
                        ELSE IF ~fdb.exists THEN SdkApiError("NoSuchBucket")
                        ELSE NoError
              out == ListObjectsV2(fdb.keys, fdb.nextToken)
              request == ForceDeleteBucket_request("ListObjectsV2", {}, sdkErr) IN
          IF sdkErr # NoError
          THEN fdb' = [fdb EXCEPT !.pc = "done",
                                  !.requests = Append(@, request),
                                  !.err = s3ErrorToGofakes3(sdkErr, fdb.name, "")]
          ELSE fdb' = [fdb EXCEPT !.pc = IF out.Contents # {} THEN "DeleteObjects"
                                         ELSE "paginator",
                                  !.firstPage = FALSE,
                                  !.nextToken = out.NextContinuationToken,
                                  !.page = out.Contents,
                                  !.requests = Append(@, request)]
    /\ UNCHANGED <<shutdown, open, main, backend, storeVars, originVars, mappingVars, frameVars>>

\* b.client.DeleteObjects with the keys of the page; an error is translated
\* and returned.
ForceDeleteBucket_DeleteObjects ==
    /\ fdb.pc = "DeleteObjects"
    /\ \E fault \in Faults :
          LET sdkErr == IF fault # "none" THEN FaultError(fault) ELSE NoError
              request == ForceDeleteBucket_request("DeleteObjects", fdb.page, sdkErr) IN
          IF sdkErr # NoError
          THEN fdb' = [fdb EXCEPT !.pc = "done",
                                  !.requests = Append(@, request),
                                  !.err = s3ErrorToGofakes3(sdkErr, fdb.name, "")]
          ELSE fdb' = [fdb EXCEPT !.pc = "paginator",
                                  !.keys = @ \ fdb.page,
                                  !.requests = Append(@, request)]
    /\ UNCHANGED <<shutdown, open, main, backend, storeVars, originVars, mappingVars, frameVars>>

\* After the loop: b.client.DeleteBucket, its error translated and returned.
\* The service refuses to delete a bucket that holds objects.
ForceDeleteBucket_DeleteBucket ==
    /\ fdb.pc = "paginator"
    /\ ~HasMorePages(fdb)
    /\ \E fault \in Faults :
          LET sdkErr == IF fault # "none" THEN FaultError(fault)
                        ELSE IF ~fdb.exists THEN SdkApiError("NoSuchBucket")
                        ELSE IF fdb.keys # {} THEN SdkApiError("BucketNotEmpty")
                        ELSE NoError
              request == ForceDeleteBucket_request("DeleteBucket", {}, sdkErr) IN
          fdb' = [fdb EXCEPT !.pc = "done",
                             !.exists = IF sdkErr = NoError THEN FALSE ELSE @,
                             !.requests = Append(@, request),
                             !.err = s3ErrorToGofakes3(sdkErr, fdb.name, "")]
    /\ UNCHANGED <<shutdown, open, main, backend, storeVars, originVars, mappingVars, frameVars>>

(***************************************************************************)
(* The process around the backend: the HTTP server, the channels quit and  *)
(* done, the goroutine that waits for a signal, and the process's exit.    *)
(***************************************************************************)
MaxSignals == 2
MaxConns == 1

NoContext == [timeout |-> 0, expired |-> FALSE]

\* Mutant: the shutdown runs under a context without a deadline.
ShutdownContext_background == NoContext

\* context.WithTimeout(context.Background(), 30*time.Second)
ShutdownContext == [timeout |-> 30, expired |-> FALSE]

\* done := make(chan bool); quit := make(chan os.Signal, 1); signal.Notify;
\* the goroutine is at <-quit; the server is built and not yet listening.
NoShutdown ==
    [signals |-> 0, quit |-> 0, go |-> "<-quit", server |-> "new", conns |-> 0, served |-> 0,
     ctx |-> NoContext, done |-> "open", exit |-> "running", log |-> <<>>]

(***************************************************************************)
(* gofakes3's own stores (s3afero on disk for the "local" backend, s3mem   *)
(* in the tests): the Store capability, with the absence of a bucket or a  *)
(* key reported by name on every operation.                                *)
(***************************************************************************)
Gofakes3_GetObject(bucketName, objectName, rangeRequest, fault) ==
    LET o == localObjects[<<bucketName, objectName>>] IN
    IF fault # "none" THEN [err |-> IoError, obj |-> NoObject]
    ELSE IF bucketName \notin localBuckets
    THEN [err |-> BucketNotFound(bucketName), obj |-> NoObject]
    ELSE IF ~o.present THEN [err |-> KeyNotFound(objectName), obj |-> NoObject]
    ELSE IF ~RangeSatisfiable(rangeRequest, Len(o.body))
    THEN [err |-> ErrorCode("InvalidRange"), obj |-> NoObject]
    ELSE [err |-> NoError,
          obj |-> Object(objectName, o.ContentType, o.user,
                         Len(RangeOf(o.body, rangeRequest)),
                         RangeOf(o.body, rangeRequest), ETagOf(o.body))]

Gofakes3_HeadObject(bucketName, objectName, fault) ==
    LET o == localObjects[<<bucketName, objectName>>] IN
    IF fault # "none" THEN [err |-> IoError, obj |-> NoObject]
    ELSE IF bucketName \notin localBuckets
    THEN [err |-> BucketNotFound(bucketName), obj |-> NoObject]
    ELSE IF ~o.present THEN [err |-> KeyNotFound(objectName), obj |-> NoObject]
    ELSE [err |-> NoError,
          obj |-> Object(objectName, o.ContentType, o.user, Len(o.body), <<>>,
                         ETagOf(o.body))]

Gofakes3_PutObject(bucketName, objectName, meta, input, size, fault) ==
    IF fault # "none" THEN [err |-> IoError, objects |-> localObjects]
    ELSE IF bucketName \notin localBuckets
    THEN [err |-> BucketNotFound(bucketName), objects |-> localObjects]
    ELSE [err |-> NoError,
          objects |-> [localObjects EXCEPT ![<<bucketName, objectName>>] =
                          Stored(input, meta.ContentType, meta.user)]]

Gofakes3_CopyObject(srcBucket, srcKey, dstBucket, dstKey, meta, fault) ==
    LET src == localObjects[<<srcBucket, srcKey>>] IN
    IF fault # "none" THEN [err |-> IoError, objects |-> localObjects]
    ELSE IF srcBucket \notin localBuckets
    THEN [err |-> BucketNotFound(srcBucket), objects |-> localObjects]
    ELSE IF ~src.present THEN [err |-> KeyNotFound(srcKey), objects |-> localObjects]
    ELSE IF dstBucket \notin localBuckets
    THEN [err |-> BucketNotFound(dstBucket), objects |-> localObjects]
    ELSE [err |-> NoError,
          objects |-> [localObjects EXCEPT ![<<dstBucket, dstKey>>] =
                          Stored(src.body, meta.ContentType, meta.user)]]

Gofakes3_DeleteObject(bucketName, objectName, fault) ==
    IF fault # "none" THEN [err |-> IoError, objects |-> localObjects]
    ELSE IF bucketName \notin localBuckets
    THEN [err |-> BucketNotFound(bucketName), objects |-> localObjects]
    ELSE [err |-> NoError,
          objects |-> [localObjects EXCEPT ![<<bucketName, objectName>>] = Absent]]

Gofakes3_CreateBucket(name, fault) ==
    IF fault # "none" THEN [err |-> IoError, buckets |-> localBuckets]
    ELSE IF name \in localBuckets
    THEN [err |-> ErrorCode("BucketAlreadyExists"), buckets |-> localBuckets]
    ELSE [err |-> NoError, buckets |-> localBuckets \cup {name}]

Gofakes3_DeleteBucket(name, fault) ==
    IF fault # "none" THEN [err |-> IoError, buckets |-> localBuckets]
    ELSE IF name \notin localBuckets
    THEN [err |-> BucketNotFound(name), buckets |-> localBuckets]
    ELSE IF \E k \in Keys : localObjects[<<name, k>>].present
    THEN [err |-> ErrorCode("BucketNotEmpty"), buckets |-> localBuckets]
    ELSE [err |-> NoError, buckets |-> localBuckets \ {name}]

Gofakes3_ListBuckets(fault) ==
    IF fault # "none" THEN [err |-> IoError, obj |-> NoObject]
    ELSE [err |-> NoError, obj |-> localBuckets]

Gofakes3_ListBucket(name, prefix, fault) ==
    IF fault # "none" THEN [err |-> IoError, obj |-> NoObject]
    ELSE IF name \notin localBuckets THEN [err |-> BucketNotFound(name), obj |-> NoObject]
    ELSE [err |-> NoError, obj |-> ListedContents(localObjects, name, prefix)]

Gofakes3_BucketExists(name, fault) ==
    IF fault # "none" THEN [err |-> IoError, obj |-> FALSE]
    ELSE [err |-> NoError, obj |-> name \in localBuckets]

Gofakes3_ForceDeleteBucket(name, fault, stage) ==
    IF fault # "none"
    THEN [err |-> IoError, buckets |-> localBuckets, objects |-> localObjects]
    ELSE IF name \notin localBuckets
    THEN [err |-> BucketNotFound(name), buckets |-> localBuckets, objects |-> localObjects]
    ELSE [err |-> NoError, buckets |-> localBuckets \ {name},
          objects |-> [bk \in Buckets \X Keys |->
                          IF bk[1] = name THEN Absent ELSE localObjects[bk]]]

Gofakes3_DeleteMulti(bucketName, objects, fault) ==
    IF fault # "none" THEN [err |-> IoError, objects |-> localObjects]
    ELSE IF bucketName \notin localBuckets
    THEN [err |-> BucketNotFound(bucketName), objects |-> localObjects]
    ELSE [err |-> NoError,
          objects |-> [bk \in Buckets \X Keys |->
                          IF bk[1] = bucketName /\ bk[2] \in objects
                          THEN Absent ELSE localObjects[bk]]]

(***************************************************************************)
(* b.local: the store createLocalBackend selected.                         *)
(***************************************************************************)
local_ListBuckets(fault) ==
    IF backend = "localstack"
    THEN LocalStackBackend_ListBuckets(fault)
    ELSE Gofakes3_ListBuckets(fault)

local_ListBucket(name, prefix, fault) ==
    IF backend = "localstack"
    THEN LocalStackBackend_ListBucket(name, prefix, fault)
    ELSE Gofakes3_ListBucket(name, prefix, fault)

local_BucketExists(name, fault) ==
    IF backend = "localstack"
    THEN LocalStackBackend_BucketExists(name, fault)
    ELSE Gofakes3_BucketExists(name, fault)

local_ForceDeleteBucket(name, fault, stage) ==
    IF backend = "localstack"
    THEN LocalStackBackend_ForceDeleteBucket(name, fault, stage)
    ELSE Gofakes3_ForceDeleteBucket(name, fault, stage)

local_DeleteMulti(bucketName, objects, fault) ==
    IF backend = "localstack"
    THEN LocalStackBackend_DeleteMulti(bucketName, objects, fault)
    ELSE Gofakes3_DeleteMulti(bucketName, objects, fault)

local_GetObject(bucketName, objectName, rangeRequest, fault) ==
    IF backend = "localstack"
    THEN LocalStackBackend_GetObject(bucketName, objectName, rangeRequest, fault)
    ELSE Gofakes3_GetObject(bucketName, objectName, rangeRequest, fault)

local_HeadObject(bucketName, objectName, fault) ==
    IF backend = "localstack"
    THEN LocalStackBackend_HeadObject(bucketName, objectName, fault)
    ELSE Gofakes3_HeadObject(bucketName, objectName, fault)

local_PutObject(bucketName, objectName, meta, input, size, fault) ==
    IF backend = "localstack"
    THEN LocalStackBackend_PutObject(bucketName, objectName, meta, input, size, fault)
    ELSE Gofakes3_PutObject(bucketName, objectName, meta, input, size, fault)

local_CopyObject(srcBucket, srcKey, dstBucket, dstKey, meta, fault) ==
    IF backend = "localstack"
    THEN LocalStackBackend_CopyObject(srcBucket, srcKey, dstBucket, dstKey, meta, fault)
    ELSE Gofakes3_CopyObject(srcBucket, srcKey, dstBucket, dstKey, meta, fault)

\* Mutant: deleting a key the bucket does not hold is an error.
local_DeleteObject_strict(bucketName, objectName, fault) ==
    IF /\ fault = "none"
       /\ bucketName \in localBuckets
       /\ ~localObjects[<<bucketName, objectName>>].present
    THEN [err |-> KeyNotFound(objectName), objects |-> localObjects]
    ELSE IF backend = "localstack"
    THEN LocalStackBackend_DeleteObject(bucketName, objectName, fault)
    ELSE Gofakes3_DeleteObject(bucketName, objectName, fault)

\* Mutant: a delete leaves a marker under the key in place of nothing.
local_DeleteObject_tombstone(bucketName, objectName, fault) ==
    LET r == IF backend = "localstack"
             THEN LocalStackBackend_DeleteObject(bucketName, objectName, fault)
             ELSE Gofakes3_DeleteObject(bucketName, objectName, fault) IN
    IF r.err = NoError
    THEN [err |-> NoError,
          objects |-> [r.objects EXCEPT ![<<bucketName, objectName>>] =
                          [present |-> FALSE, deleted |-> TRUE]]]
    ELSE r

local_DeleteObject(bucketName, objectName, fault) ==
    IF backend = "localstack"
    THEN LocalStackBackend_DeleteObject(bucketName, objectName, fault)
    ELSE Gofakes3_DeleteObject(bucketName, objectName, fault)

local_CreateBucket(name, fault) ==
    IF backend = "localstack"
    THEN LocalStackBackend_CreateBucket(name, fault)
    ELSE Gofakes3_CreateBucket(name, fault)

local_DeleteBucket(name, fault) ==
    IF backend = "localstack"
    THEN LocalStackBackend_DeleteBucket(name, fault)
    ELSE Gofakes3_DeleteBucket(name, fault)

(***************************************************************************)
(* The origin, through b.awsClient.  A call that does not reach the origin *)
(* ends with a transport error.                                            *)
(***************************************************************************)
awsFaults == {"none", "transport"}

awsClient_GetObject(bucket, key, range, fault) ==
    S3GetObject(awsBuckets, awsObjects, bucket, key, range, fault)

awsClient_HeadObject(bucket, key, fault) ==
    S3HeadObject(awsBuckets, awsObjects, bucket, key, fault)

(***************************************************************************)
(* LazyBackend.                                                            *)
(***************************************************************************)
BucketMappings ==
    {<<>>, [b \in {"dev"} |-> "prod"], [b \in Buckets |-> IF b = "dev" THEN "prod" ELSE "dev"]}

\* Mutant: the mapping is not consulted.
awsBucketName_unmapped(localBucket) == localBucket

\* Mutant: the map is read without the ok test; a missing entry gives "".
awsBucketName_zeroValue(localBucket) ==
    IF localBucket \in DOMAIN bucketMapping
    THEN bucketMapping[localBucket]
    ELSE ""

awsBucketName(localBucket) ==
    IF localBucket \in DOMAIN bucketMapping
    THEN bucketMapping[localBucket]
    ELSE localBucket

\* No SetBucketMappings call is in progress.
NoSetter == [pc |-> "idle", mappings |-> <<>>, before |-> <<>>, todo |-> {}]

NoRequest == [op |-> "none", bucket |-> "", key |-> "", rangeRequest |-> NoRange,
              dstBucket |-> "", dstKey |-> "", input |-> 0, objects |-> {}, prefix |-> NoPrefix]
Request(op, bucket, key, rangeRequest, dstBucket, dstKey, input) ==
    [op |-> op, bucket |-> bucket, key |-> key, rangeRequest |-> rangeRequest,
     dstBucket |-> dstBucket, dstKey |-> dstKey, input |-> input,
     objects |-> {}, prefix |-> NoPrefix]

NoReturn == [err |-> NoError, obj |-> NoObject]
NoSnapshot == [buckets |-> {}, objects |-> EmptyStoreContents]
Returns(err, obj) == [err |-> err, obj |-> obj]

\* One entry of a call log: the store method, the bucket(s) and key(s) it
\* was addressed to, whether a Range went with it, and the error it gave.
Call(op, bucket, key, dstBucket, dstKey, ranged, err) ==
    [op |-> op, bucket |-> bucket, key |-> key, dstBucket |-> dstBucket,
     dstKey |-> dstKey, ranged |-> ranged, err |-> err,
     objects |-> {}, prefix |-> NoPrefix, obj |-> NoObject]

Idle(p) == pc[p] = "idle"

\* A client enters a handler: nothing of its previous call is kept.
Enter(p, r, label) ==
    /\ Idle(p)
    /\ req' = [req EXCEPT ![p] = r]
    /\ pc' = [pc EXCEPT ![p] = label]
    /\ ret' = [ret EXCEPT ![p] = NoReturn]
    /\ awsObj' = [awsObj EXCEPT ![p] = NoOutput]
    /\ awsBucket' = [awsBucket EXCEPT ![p] = ""]
    /\ localCalls' = [localCalls EXCEPT ![p] = <<>>]
    /\ awsCalls' = [awsCalls EXCEPT ![p] = <<>>]
    /\ pre' = [pre EXCEPT ![p] = [buckets |-> localBuckets, objects |-> localObjects]]

CallGetObject(p) ==
    /\ \E b \in Buckets, k \in Keys, r \in RangeRequests :
          Enter(p, Request("GetObject", b, k, r, "", "", 0), "GetObject_local")
    /\ UNCHANGED <<shutdown, fdb, open, main, backend, storeVars, originVars, mappingVars>>

CallHeadObject(p) ==
    /\ \E b \in Buckets, k \in Keys :
          Enter(p, Request("HeadObject", b, k, NoRange, "", "", 0), "HeadObject_local")
    /\ UNCHANGED <<shutdown, fdb, open, main, backend, storeVars, originVars, mappingVars>>

\* Mutant: CopyObject goes to the cache store's copy without fetching the source.
CallCopyObject_noFetch(p) ==
    /\ \E sb \in Buckets, sk \in Keys, db \in Buckets, dk \in Keys :
          Enter(p, Request("CopyObject", sb, sk, NoRange, db, dk, 0), "CopyObject_local")
    /\ UNCHANGED <<shutdown, fdb, open, main, backend, storeVars, originVars, mappingVars>>

\* CopyObject starts with b.GetObject(srcBucket, srcKey, nil).
CallCopyObject(p) ==
    /\ \E sb \in Buckets, sk \in Keys, db \in Buckets, dk \in Keys :
          Enter(p, Request("CopyObject", sb, sk, NoRange, db, dk, 0), "GetObject_local")
    /\ UNCHANGED <<shutdown, fdb, open, main, backend, storeVars, originVars, mappingVars>>

\* b.GetObject returns result: to the client, or into CopyObject.
\* defer awsObj.Body.Close(): runs when GetObject returns after a successful fetch.
GetObject_defer(streams) == streams \ {"awsObj.Body"}

\* The streams still owed a Close once GetObject has returned: the payload of
\* the object it returned goes to the caller of a GetObject request, and to
\* CopyObject (_, err := b.GetObject(srcBucket, srcKey, nil)), which drops it
\* without a Close.
StreamsAtReturn(p, streams, err) ==
    IF err = NoError /\ req[p].op = "CopyObject"
    THEN streams \cup {"obj.Contents"}
    ELSE streams

\* Mutant: CopyObject goes on to the cache store's copy whatever its GetObject returned.
GetObjectReturns_copyAnyway(p, result) ==
    IF req[p].op = "CopyObject"
    THEN /\ pc' = [pc EXCEPT ![p] = "CopyObject_local"]
         /\ ret' = ret
    ELSE /\ pc' = [pc EXCEPT ![p] = "done"]
         /\ ret' = [ret EXCEPT ![p] = result]

GetObjectReturns(p, result) ==
    IF req[p].op = "CopyObject"
    THEN IF result.err = NoError
         THEN /\ pc' = [pc EXCEPT ![p] = "CopyObject_local"]
              /\ ret' = ret
         ELSE /\ pc' = [pc EXCEPT ![p] = "done"]
              /\ ret' = [ret EXCEPT ![p] = Returns(result.err, NoObject)]
    ELSE /\ pc' = [pc EXCEPT ![p] = "done"]
         /\ ret' = [ret EXCEPT ![p] = result]

\* obj, err := b.local.GetObject(...): a hit returns, an error that is not
\* an absence returns, an absence goes on to the origin.
GetObject_local(p) ==
    /\ pc[p] = "GetObject_local"
    /\ \E fault \in Faults :
          LET r == local_GetObject(req[p].bucket, req[p].key, req[p].rangeRequest, fault) IN
          /\ localCalls' = [localCalls EXCEPT ![p] =
                 Append(@, Call("GetObject", req[p].bucket, req[p].key, "", "",
                                req[p].rangeRequest.set, r.err))]
          /\ IF r.err = NoError THEN GetObjectReturns(p, r)
             ELSE IF ~isNotFound(r.err) THEN GetObjectReturns(p, Returns(r.err, NoObject))
             ELSE /\ pc' = [pc EXCEPT ![p] = "GetObject_awsBucketName"]
                  /\ ret' = ret
          /\ open' = [open EXCEPT ![p] = StreamsAtReturn(p, @, r.err)]
    /\ UNCHANGED <<shutdown, fdb, main, backend, storeVars, originVars, mappingVars, req, awsObj, awsBucket, awsCalls, pre>>

\* Mutant: the caller's Range goes to the origin with the fetch.
GetObject_awsRange_forwarded(rangeRequest) == rangeRequest

\* The Range the origin GetObjectInput carries: the input has Bucket and Key only.
GetObject_awsRange(rangeRequest) == NoRange

\* Mutant: the origin's error is translated and passed on.
GetObject_awsError_translated(objectName, err) == s3ErrorToGofakes3(err, "", objectName)

\* if err != nil { return nil, gofakes3.KeyNotFound(objectName) }
GetObject_awsError(objectName, err) == KeyNotFound(objectName)

\* Mutant: the lookup does not wait for b.mu.
mu_RLock_notTaken == TRUE

\* b.mu.RLock() is granted while no SetBucketMappings holds b.mu.
mu_RLock == mu = "unlocked"

\* awsBucket := b.awsBucketName(bucketName): RLock, the lookup, RUnlock.
GetObject_awsBucketName(p) ==
    /\ pc[p] = "GetObject_awsBucketName"
    /\ mu_RLock
    /\ awsBucket' = [awsBucket EXCEPT ![p] = awsBucketName(req[p].bucket)]
    /\ pc' = [pc EXCEPT ![p] = "GetObject_aws"]
    /\ UNCHANGED <<shutdown, fdb, open, main, backend, storeVars, originVars, mappingVars, req, ret, awsObj, localCalls, awsCalls, pre>>

\* Mutant: a miss waits while another call is writing the same key to the cache.
GetObject_aws_singleflight(p) ==
    /\ pc[p] = "GetObject_aws"
    /\ \A q \in Clients \ {p} :
          ~(pc[q] = "GetObject_cache" /\ req[q].bucket = req[p].bucket /\ req[q].key = req[p].key)
    /\ \E fault \in awsFaults :
       LET range == GetObject_awsRange(req[p].rangeRequest)
           r == awsClient_GetObject(awsBucket[p], req[p].key, range, fault) IN
       /\ awsCalls' = [awsCalls EXCEPT ![p] =
              Append(@, Call("GetObject", awsBucket[p], req[p].key, "", "", range.set, r.err))]
       /\ IF r.err # NoError
          THEN /\ GetObjectReturns(p, Returns(GetObject_awsError(req[p].key, r.err), NoObject))
               /\ awsObj' = awsObj
               /\ open' = open
          ELSE /\ pc' = [pc EXCEPT ![p] = "GetObject_cache"]
               /\ awsObj' = [awsObj EXCEPT ![p] = r.out]
               /\ ret' = ret
               /\ open' = [open EXCEPT ![p] = @ \cup {"awsObj.Body"}]
    /\ UNCHANGED <<shutdown, fdb, main, backend, storeVars, originVars, mappingVars, req, awsBucket, localCalls, pre>>

\* awsObj, err := b.awsClient.GetObject(...) on the mapped bucket.
GetObject_aws(p) ==
    /\ pc[p] = "GetObject_aws"
    /\ \E fault \in awsFaults :
       LET range == GetObject_awsRange(req[p].rangeRequest)
           r == awsClient_GetObject(awsBucket[p], req[p].key, range, fault) IN
       /\ awsCalls' = [awsCalls EXCEPT ![p] =
              Append(@, Call("GetObject", awsBucket[p], req[p].key, "", "", range.set, r.err))]
       /\ IF r.err # NoError
          THEN /\ GetObjectReturns(p, Returns(GetObject_awsError(req[p].key, r.err), NoObject))
               /\ awsObj' = awsObj
               /\ open' = open
          ELSE /\ pc' = [pc EXCEPT ![p] = "GetObject_cache"]
               /\ awsObj' = [awsObj EXCEPT ![p] = r.out]
               /\ ret' = ret
               /\ open' = [open EXCEPT ![p] = @ \cup {"awsObj.Body"}]
    /\ UNCHANGED <<shutdown, fdb, main, backend, storeVars, originVars, mappingVars, req, awsBucket, localCalls, pre>>

\* Mutant: the Content-Type of the origin's answer is not carried into meta.
GetObject_meta_noContentType(out) == [ContentType |-> NoValue, user |-> out.Metadata]

\* meta: the Content-Type when the origin gave one, and the origin's metadata.
GetObject_meta(out) == [ContentType |-> out.ContentType, user |-> out.Metadata]

\* Mutant: a failed cache write is reported like a failed origin fetch.
GetObject_cacheError_keyNotFound(bucketName, objectName, err) == KeyNotFound(objectName)

\* if err != nil { return nil, fmt.Errorf("failed to cache ...: %w", err) }
GetObject_cacheError(bucketName, objectName, err) ==
    FailedToCache(bucketName, objectName, err)

\* Mutant: the origin's answer is handed to the caller and never written to the cache.
GetObject_cache_noWrite(p) ==
    /\ pc[p] = "GetObject_cache"
    /\ GetObjectReturns(p, Returns(NoError, getOutputToObject(req[p].key, awsObj[p])))
    /\ UNCHANGED <<shutdown, fdb, open, main, backend, storeVars, originVars, mappingVars, req, awsObj, awsBucket, localCalls, awsCalls, pre>>

\* Mutant: a failed cache write is tried a second time.
GetObject_cache_retry(p) ==
    /\ pc[p] = "GetObject_cache"
    /\ \E fault \in Faults :
          LET r == local_PutObject(req[p].bucket, req[p].key, GetObject_meta(awsObj[p]),
                                   awsObj[p].Body, awsObj[p].ContentLength, fault) IN
          /\ localCalls' = [localCalls EXCEPT ![p] =
                 Append(@, Call("PutObject", req[p].bucket, req[p].key, "", "", FALSE, r.err))]
          /\ localObjects' = r.objects
          /\ IF r.err # NoError /\ Len(localCalls[p]) >= 2
             THEN GetObjectReturns(p,
                      Returns(GetObject_cacheError(req[p].bucket, req[p].key, r.err), NoObject))
             ELSE IF r.err # NoError
             THEN UNCHANGED <<pc, ret>>
             ELSE /\ pc' = [pc EXCEPT ![p] = "GetObject_return"]
                  /\ ret' = ret
    /\ UNCHANGED <<shutdown, fdb, open, main, backend, localBuckets, originVars, mappingVars, req, awsObj, awsBucket, awsCalls, pre>>

\* Mutant: the populate writes only a key the cache does not hold yet
\* (a PutObject under the condition If-None-Match: *).
GetObject_cache_ifNoneMatch(p) ==
    /\ pc[p] = "GetObject_cache"
    /\ \E fault \in Faults :
          LET held == /\ req[p].bucket \in localBuckets
                      /\ localObjects[<<req[p].bucket, req[p].key>>].present
              w == local_PutObject(req[p].bucket, req[p].key, GetObject_meta(awsObj[p]),
                                   awsObj[p].Body, awsObj[p].ContentLength, fault)
              r == IF fault = "none" /\ held
                   THEN [err |-> ErrorCode("PreconditionFailed"), objects |-> localObjects]
                   ELSE w IN
          /\ localCalls' = [localCalls EXCEPT ![p] =
                 Append(@, Call("PutObject", req[p].bucket, req[p].key, "", "", FALSE, r.err))]
          /\ localObjects' = r.objects
          /\ IF r.err # NoError
             THEN GetObjectReturns(p,
                      Returns(GetObject_cacheError(req[p].bucket, req[p].key, r.err), NoObject))
             ELSE /\ pc' = [pc EXCEPT ![p] = "GetObject_return"]
                  /\ ret' = ret
    /\ UNCHANGED <<shutdown, fdb, open, main, backend, localBuckets, originVars, mappingVars, req, awsObj, awsBucket, awsCalls, pre>>

\* Mutant: a populate creates the bucket the cache store lacks.
GetObject_cache_createBucket(p) ==
    /\ pc[p] = "GetObject_cache"
    /\ \E fault \in Faults :
          LET r == local_PutObject(req[p].bucket, req[p].key, GetObject_meta(awsObj[p]),
                                   awsObj[p].Body, awsObj[p].ContentLength, fault)
              create == fault = "none" /\ req[p].bucket \notin localBuckets
              err == IF create THEN NoError ELSE r.err IN
          /\ localCalls' = [localCalls EXCEPT ![p] =
                 Append(@, Call("PutObject", req[p].bucket, req[p].key, "", "", FALSE, err))]
          /\ localBuckets' = IF create THEN localBuckets \cup {req[p].bucket} ELSE localBuckets
          /\ localObjects' =
                 IF create
                 THEN [localObjects EXCEPT ![<<req[p].bucket, req[p].key>>] =
                          Stored(awsObj[p].Body, awsObj[p].ContentType, awsObj[p].Metadata)]
                 ELSE r.objects
          /\ IF err # NoError
             THEN GetObjectReturns(p,
                      Returns(GetObject_cacheError(req[p].bucket, req[p].key, err), NoObject))
             ELSE /\ pc' = [pc EXCEPT ![p] = "GetObject_return"]
                  /\ ret' = ret
    /\ UNCHANGED <<shutdown, fdb, open, main, backend, originVars, mappingVars, req, awsObj, awsBucket, awsCalls, pre>>

\* _, err = b.local.PutObject(bucketName, objectName, meta, awsObj.Body, size, nil)
GetObject_cache(p) ==
    /\ pc[p] = "GetObject_cache"
    /\ \E fault \in Faults :
          LET r == local_PutObject(req[p].bucket, req[p].key, GetObject_meta(awsObj[p]),
                                   awsObj[p].Body, awsObj[p].ContentLength, fault) IN
          /\ localCalls' = [localCalls EXCEPT ![p] =
                 Append(@, Call("PutObject", req[p].bucket, req[p].key, "", "", FALSE, r.err))]
          /\ localObjects' = r.objects
          /\ IF r.err # NoError
             THEN /\ GetObjectReturns(p,
                       Returns(GetObject_cacheError(req[p].bucket, req[p].key, r.err), NoObject))
                  /\ open' = [open EXCEPT ![p] = GetObject_defer(@)]
             ELSE /\ pc' = [pc EXCEPT ![p] = "GetObject_return"]
                  /\ ret' = ret
                  /\ open' = open
    /\ UNCHANGED <<shutdown, fdb, main, backend, localBuckets, originVars, mappingVars, req, awsObj, awsBucket, awsCalls, pre>>

\* return b.local.GetObject(bucketName, objectName, rangeRequest)
GetObject_return(p) ==
    /\ pc[p] = "GetObject_return"
    /\ \E fault \in Faults :
          LET r == local_GetObject(req[p].bucket, req[p].key, req[p].rangeRequest, fault) IN
          /\ localCalls' = [localCalls EXCEPT ![p] =
                 Append(@, Call("GetObject", req[p].bucket, req[p].key, "", "",
                                req[p].rangeRequest.set, r.err))]
          /\ GetObjectReturns(p, r)
          /\ open' = [open EXCEPT ![p] = StreamsAtReturn(p, GetObject_defer(@), r.err)]
    /\ UNCHANGED <<shutdown, fdb, main, backend, storeVars, originVars, mappingVars, req, awsObj, awsBucket, awsCalls, pre>>

\* obj, err := b.local.HeadObject(bucketName, objectName)
HeadObject_local(p) ==
    /\ pc[p] = "HeadObject_local"
    /\ \E fault \in Faults :
          LET r == local_HeadObject(req[p].bucket, req[p].key, fault) IN
          /\ localCalls' = [localCalls EXCEPT ![p] =
                 Append(@, Call("HeadObject", req[p].bucket, req[p].key, "", "", FALSE, r.err))]
          /\ IF r.err = NoError \/ ~isNotFound(r.err)
             THEN /\ pc' = [pc EXCEPT ![p] = "done"]
                  /\ ret' = [ret EXCEPT ![p] = r]
             ELSE /\ pc' = [pc EXCEPT ![p] = "HeadObject_awsBucketName"]
                  /\ ret' = ret
    /\ UNCHANGED <<shutdown, fdb, open, main, backend, storeVars, originVars, mappingVars, req, awsObj, awsBucket, awsCalls, pre>>

\* awsBucket := b.awsBucketName(bucketName): RLock, the lookup, RUnlock.
HeadObject_awsBucketName(p) ==
    /\ pc[p] = "HeadObject_awsBucketName"
    /\ mu_RLock
    /\ awsBucket' = [awsBucket EXCEPT ![p] = awsBucketName(req[p].bucket)]
    /\ pc' = [pc EXCEPT ![p] = "HeadObject_aws"]
    /\ UNCHANGED <<shutdown, fdb, open, main, backend, storeVars, originVars, mappingVars, req, ret, awsObj, localCalls, awsCalls, pre>>

\* Mutant: the Content-Length of the origin's answer is not copied.
HeadObject_object_noSize(objectName, out) ==
    Object(objectName, out.ContentType, NoValue, 0, <<>>, <<>>)

\* The minimal Object of a HEAD answered by the origin: Name, Metadata with
\* the Content-Type, Size, an empty reader; no other field is set.
HeadObject_object(objectName, out) ==
    Object(objectName, out.ContentType, NoValue, out.ContentLength, <<>>, <<>>)

\* if err != nil { return nil, gofakes3.KeyNotFound(objectName) }
HeadObject_awsError(objectName, err) == KeyNotFound(objectName)

\* Mutant: a HEAD answered by the origin leaves an entry in the cache.
HeadObject_aws_caching(p) ==
    /\ pc[p] = "HeadObject_aws"
    /\ \E fault \in awsFaults :
       LET r == awsClient_HeadObject(awsBucket[p], req[p].key, fault) IN
       /\ awsCalls' = [awsCalls EXCEPT ![p] =
              Append(@, Call("HeadObject", awsBucket[p], req[p].key, "", "", FALSE, r.err))]
       /\ ret' = [ret EXCEPT ![p] =
              IF r.err # NoError
              THEN Returns(HeadObject_awsError(req[p].key, r.err), NoObject)
              ELSE Returns(NoError, HeadObject_object(req[p].key, r.out))]
       /\ localObjects' =
              IF r.err = NoError /\ req[p].bucket \in localBuckets
              THEN [localObjects EXCEPT ![<<req[p].bucket, req[p].key>>] =
                       Stored(<<>>, r.out.ContentType, NoValue)]
              ELSE localObjects
       /\ pc' = [pc EXCEPT ![p] = "done"]
    /\ UNCHANGED <<shutdown, fdb, open, main, backend, localBuckets, originVars, mappingVars, req, awsObj, awsBucket, localCalls, pre>>

\* awsObj, err := b.awsClient.HeadObject(...) on the mapped bucket; nothing is cached.
HeadObject_aws(p) ==
    /\ pc[p] = "HeadObject_aws"
    /\ \E fault \in awsFaults :
       LET r == awsClient_HeadObject(awsBucket[p], req[p].key, fault) IN
       /\ awsCalls' = [awsCalls EXCEPT ![p] =
              Append(@, Call("HeadObject", awsBucket[p], req[p].key, "", "", FALSE, r.err))]
       /\ ret' = [ret EXCEPT ![p] =
              IF r.err # NoError
              THEN Returns(HeadObject_awsError(req[p].key, r.err), NoObject)
              ELSE Returns(NoError, HeadObject_object(req[p].key, r.out))]
       /\ pc' = [pc EXCEPT ![p] = "done"]
    /\ UNCHANGED <<shutdown, fdb, open, main, backend, storeVars, originVars, mappingVars, req, awsObj, awsBucket, localCalls, pre>>

\* An origin call that is never answered.  ctx := context.Background() has
\* no deadline and the client of createAWSClient is built with no timeout,
\* so the call does not return (the call logs hold the calls that returned)
\* and the handler has no later statement to run.
awsClient_NoAnswer(p) ==
    /\ pc' = [pc EXCEPT ![p] = "awsClient_blocked"]
    /\ UNCHANGED <<shutdown, fdb, open, main, backend, storeVars, originVars, mappingVars, req, ret, awsObj, awsBucket,
                   localCalls, awsCalls, pre>>

\* awsObj, err := b.awsClient.GetObject(ctx, ...): the origin never answers.
GetObject_awsNoAnswer(p) ==
    /\ pc[p] = "GetObject_aws"
    /\ awsClient_NoAnswer(p)

\* awsObj, err := b.awsClient.HeadObject(ctx, ...): the origin never answers.
HeadObject_awsNoAnswer(p) ==
    /\ pc[p] = "HeadObject_aws"
    /\ awsClient_NoAnswer(p)

\* return b.local.CopyObject(srcBucket, srcKey, dstBucket, dstKey, meta)
CopyObject_local(p) ==
    /\ pc[p] = "CopyObject_local"
    /\ \E fault \in Faults :
          LET r == local_CopyObject(req[p].bucket, req[p].key, req[p].dstBucket,
                                    req[p].dstKey, NilMeta, fault) IN
          /\ localCalls' = [localCalls EXCEPT ![p] =
                 Append(@, Call("CopyObject", req[p].bucket, req[p].key, req[p].dstBucket,
                                req[p].dstKey, FALSE, r.err))]
          /\ localObjects' = r.objects
          /\ ret' = [ret EXCEPT ![p] = Returns(r.err, NoObject)]
          /\ pc' = [pc EXCEPT ![p] = "done"]
    /\ UNCHANGED <<shutdown, fdb, open, main, backend, localBuckets, originVars, mappingVars, req, awsObj, awsBucket, awsCalls, pre>>

(***************************************************************************)
(* The delegating methods: one call on b.local, its result returned.       *)
(***************************************************************************)
DelegateReturning(p, r, call, result) ==
    /\ Idle(p)
    /\ req' = [req EXCEPT ![p] = r]
    /\ pc' = [pc EXCEPT ![p] = "done"]
    /\ ret' = [ret EXCEPT ![p] = result]
    /\ awsObj' = [awsObj EXCEPT ![p] = NoOutput]
    /\ awsBucket' = [awsBucket EXCEPT ![p] = ""]
    /\ localCalls' = [localCalls EXCEPT ![p] = <<call>>]
    /\ awsCalls' = [awsCalls EXCEPT ![p] = <<>>]
    /\ pre' = [pre EXCEPT ![p] = [buckets |-> localBuckets, objects |-> localObjects]]

Delegate(p, r, call, err) == DelegateReturning(p, r, call, Returns(err, NoObject))

\* Mutant: a write goes to the origin as well (write-through).
PutObject_writeThrough(p) ==
    /\ \E b \in Buckets, k \in Keys, n \in 1..MaxSize, fault \in Faults :
          LET o == SampleObject(n)
              r == local_PutObject(b, k, [ContentType |-> o.ContentType, user |-> o.user],
                                   o.body, Len(o.body), fault) IN
          /\ Delegate(p, Request("PutObject", b, k, NoRange, "", "", n),
                      Call("PutObject", b, k, "", "", FALSE, r.err), r.err)
          /\ localObjects' = r.objects
          /\ awsObjects' = IF r.err = NoError /\ b \in awsBuckets
                           THEN [awsObjects EXCEPT ![<<b, k>>] = o]
                           ELSE awsObjects
    /\ UNCHANGED <<shutdown, fdb, open, main, backend, localBuckets, awsBuckets, mappingVars>>

PutObject(p) ==
    /\ \E b \in Buckets, k \in Keys, n \in 1..MaxSize, fault \in Faults :
          LET o == SampleObject(n)
              r == local_PutObject(b, k, [ContentType |-> o.ContentType, user |-> o.user],
                                   o.body, Len(o.body), fault) IN
          /\ Delegate(p, Request("PutObject", b, k, NoRange, "", "", n),
                      Call("PutObject", b, k, "", "", FALSE, r.err), r.err)
          /\ localObjects' = r.objects
    /\ UNCHANGED <<shutdown, fdb, open, main, backend, localBuckets, originVars, mappingVars>>

\* Mutant: a per-key lock held from a populate's cache write to its final
\* read keeps a delete of that key out.
DeleteObject_keyLocked(p) ==
    /\ \E b \in Buckets, k \in Keys, fault \in Faults :
          LET r == local_DeleteObject(b, k, fault) IN
          /\ \A q \in Clients \ {p} :
                ~(pc[q] = "GetObject_return" /\ req[q].bucket = b /\ req[q].key = k)
          /\ Delegate(p, Request("DeleteObject", b, k, NoRange, "", "", 0),
                      Call("DeleteObject", b, k, "", "", FALSE, r.err), r.err)
          /\ localObjects' = r.objects
    /\ UNCHANGED <<shutdown, fdb, open, main, backend, localBuckets, originVars, mappingVars>>

DeleteObject(p) ==
    /\ \E b \in Buckets, k \in Keys, fault \in Faults :
          LET r == local_DeleteObject(b, k, fault) IN
          /\ Delegate(p, Request("DeleteObject", b, k, NoRange, "", "", 0),
                      Call("DeleteObject", b, k, "", "", FALSE, r.err), r.err)
          /\ localObjects' = r.objects
    /\ UNCHANGED <<shutdown, fdb, open, main, backend, localBuckets, originVars, mappingVars>>

CreateBucket(p) ==
    /\ \E b \in Buckets, fault \in Faults :
          LET r == local_CreateBucket(b, fault) IN
          /\ Delegate(p, Request("CreateBucket", b, "", NoRange, "", "", 0),
                      Call("CreateBucket", b, "", "", "", FALSE, r.err), r.err)
          /\ localBuckets' = r.buckets
    /\ UNCHANGED <<shutdown, fdb, open, main, backend, localObjects, originVars, mappingVars>>

DeleteBucket(p) ==
    /\ \E b \in Buckets, fault \in Faults :
          LET r == local_DeleteBucket(b, fault) IN
          /\ Delegate(p, Request("DeleteBucket", b, "", NoRange, "", "", 0),
                      Call("DeleteBucket", b, "", "", "", FALSE, r.err), r.err)
          /\ localBuckets' = r.buckets
    /\ UNCHANGED <<shutdown, fdb, open, main, backend, localObjects, originVars, mappingVars>>

\* Mutant: the method name is all that reaches the store's listing; the prefix is dropped.
ListBucket_noPrefix(p) ==
    /\ \E b \in Buckets, prefix \in Prefixes, fault \in Faults :
          LET r == local_ListBucket(b, NoPrefix, fault) IN
          DelegateReturning(p,
              [Request("ListBucket", b, "", NoRange, "", "", 0) EXCEPT !.prefix = prefix],
              [Call("ListBucket", b, "", "", "", FALSE, r.err) EXCEPT !.obj = r.obj],
              Returns(r.err, r.obj))
    /\ UNCHANGED <<shutdown, fdb, open, main, backend, storeVars, originVars, mappingVars>>

\* The listing calls return what the store listed, in place of an object.
ListBuckets(p) ==
    /\ \E fault \in Faults :
          LET r == local_ListBuckets(fault) IN
          DelegateReturning(p, Request("ListBuckets", "", "", NoRange, "", "", 0),
              [Call("ListBuckets", "", "", "", "", FALSE, r.err) EXCEPT !.obj = r.obj],
              Returns(r.err, r.obj))
    /\ UNCHANGED <<shutdown, fdb, open, main, backend, storeVars, originVars, mappingVars>>

ListBucket(p) ==
    /\ \E b \in Buckets, prefix \in Prefixes, fault \in Faults :
          LET r == local_ListBucket(b, prefix, fault) IN
          DelegateReturning(p,
              [Request("ListBucket", b, "", NoRange, "", "", 0) EXCEPT !.prefix = prefix],
              [Call("ListBucket", b, "", "", "", FALSE, r.err) EXCEPT
                   !.prefix = prefix, !.obj = r.obj],
              Returns(r.err, r.obj))
    /\ UNCHANGED <<shutdown, fdb, open, main, backend, storeVars, originVars, mappingVars>>

BucketExists(p) ==
    /\ \E b \in Buckets, fault \in Faults :
          LET r == local_BucketExists(b, fault) IN
          DelegateReturning(p, Request("BucketExists", b, "", NoRange, "", "", 0),
              [Call("BucketExists", b, "", "", "", FALSE, r.err) EXCEPT !.obj = r.obj],
              Returns(r.err, r.obj))
    /\ UNCHANGED <<shutdown, fdb, open, main, backend, storeVars, originVars, mappingVars>>

ForceDeleteBucket(p) ==
    /\ \E b \in Buckets, fault \in Faults, stage \in ForceDeleteStages :
          LET r == local_ForceDeleteBucket(b, fault, stage) IN
          /\ Delegate(p, Request("ForceDeleteBucket", b, "", NoRange, "", "", 0),
                      Call("ForceDeleteBucket", b, "", "", "", FALSE, r.err), r.err)
          /\ localBuckets' = r.buckets
          /\ localObjects' = r.objects
    /\ UNCHANGED <<shutdown, fdb, open, main, backend, originVars, mappingVars>>

DeleteMulti(p) ==
    /\ \E b \in Buckets, objects \in KeyLists, fault \in Faults :
          LET r == local_DeleteMulti(b, objects, fault) IN
          /\ Delegate(p,
                 [Request("DeleteMulti", b, "", NoRange, "", "", 0) EXCEPT !.objects = objects],
                 [Call("DeleteMulti", b, "", "", "", FALSE, r.err) EXCEPT !.objects = objects],
                 r.err)
          /\ localObjects' = r.objects
    /\ UNCHANGED <<shutdown, fdb, open, main, backend, localBuckets, originVars, mappingVars>>

(***************************************************************************)
(* SetBucketMappings(mappings), statement by statement: b.mu.Lock(), a new *)
(* empty map, one entry copied per round of the range loop (in any order), *)
(* and the deferred b.mu.Unlock().                                         *)
(***************************************************************************)
SetBucketMappings_Lock ==
    /\ setter.pc = "idle"
    /\ mu = "unlocked"
    /\ mu' = "Lock"
    /\ \E mappings \in BucketMappings :
          setter' = [pc |-> "make", mappings |-> mappings, before |-> bucketMapping,
                     todo |-> DOMAIN mappings]
    /\ UNCHANGED <<shutdown, fdb, open, main, backend, storeVars, originVars, bucketMapping, frameVars>>

\* Mutant: the new entries are added to the map already there.
SetBucketMappings_make_merge ==
    /\ setter.pc = "make"
    /\ bucketMapping' = bucketMapping
    /\ setter' = [setter EXCEPT !.pc = "range"]
    /\ UNCHANGED <<shutdown, fdb, open, main, backend, storeVars, originVars, mu, frameVars>>

SetBucketMappings_make ==
    /\ setter.pc = "make"
    /\ bucketMapping' = <<>>
    /\ setter' = [setter EXCEPT !.pc = "range"]
    /\ UNCHANGED <<shutdown, fdb, open, main, backend, storeVars, originVars, mu, frameVars>>

SetBucketMappings_range ==
    /\ setter.pc = "range"
    /\ \E k \in setter.todo :
          /\ bucketMapping' = [x \in DOMAIN bucketMapping \cup {k} |->
                                  IF x = k THEN setter.mappings[k] ELSE bucketMapping[x]]
          /\ setter' = [setter EXCEPT !.todo = @ \ {k}]
    /\ UNCHANGED <<shutdown, fdb, open, main, backend, storeVars, originVars, mu, frameVars>>

SetBucketMappings_Unlock ==
    /\ setter.pc = "range"
    /\ setter.todo = {}
    /\ mu' = "unlocked"
    /\ setter' = NoSetter
    /\ UNCHANGED <<shutdown, fdb, open, main, backend, storeVars, originVars, bucketMapping, frameVars>>

SetBucketMappings ==
    \/ SetBucketMappings_Lock
    \/ SetBucketMappings_make
    \/ SetBucketMappings_range
    \/ SetBucketMappings_Unlock

(***************************************************************************)
(* The origin is a service of its own: its owner changes it.  A handler    *)
(* reads the origin in one call at most, so a change during a call is a    *)
(* change before or after it.                                              *)
(***************************************************************************)
OriginCreateBucket ==
    /\ \E b \in Buckets : b \notin awsBuckets /\ awsBuckets' = awsBuckets \cup {b}
    /\ UNCHANGED <<shutdown, fdb, open, main, backend, storeVars, awsObjects, mappingVars, frameVars>>

OriginDeleteBucket ==
    /\ \E b \in awsBuckets :
          /\ \A k \in Keys : ~awsObjects[<<b, k>>].present
          /\ awsBuckets' = awsBuckets \ {b}
    /\ UNCHANGED <<shutdown, fdb, open, main, backend, storeVars, awsObjects, mappingVars, frameVars>>

OriginPutObject ==
    /\ \E b \in awsBuckets, k \in Keys, n \in 1..MaxSize :
          awsObjects' = [awsObjects EXCEPT ![<<b, k>>] = SampleObject(n)]
    /\ UNCHANGED <<shutdown, fdb, open, main, backend, storeVars, awsBuckets, mappingVars, frameVars>>

OriginDeleteObject ==
    /\ \E b \in awsBuckets, k \in Keys :
          /\ awsObjects[<<b, k>>].present
          /\ awsObjects' = [awsObjects EXCEPT ![<<b, k>>] = Absent]
    /\ UNCHANGED <<shutdown, fdb, open, main, backend, storeVars, awsBuckets, mappingVars, frameVars>>

Origin ==
    \/ OriginCreateBucket
    \/ OriginDeleteBucket
    \/ OriginPutObject
    \/ OriginDeleteObject

(***************************************************************************)
(* Configuration (config.go).  The value of an environment variable that   *)
(* LoadConfig takes apart is a string written as the sequence of its       *)
(* pieces: names, and the characters ",", ":" and " ".  The other values   *)
(* are used whole.                                                         *)
(***************************************************************************)
RECURSIVE StringOf(_)
StringOf(s) == IF s = <<>> THEN "" ELSE Head(s) \o StringOf(Tail(s))

\* strings.TrimSpace
RECURSIVE TrimLeft(_)
TrimLeft(s) == IF s # <<>> /\ Head(s) = " " THEN TrimLeft(Tail(s)) ELSE s

RECURSIVE TrimRight(_)
TrimRight(s) ==
    IF s # <<>> /\ s[Len(s)] = " " THEN TrimRight(SubSeq(s, 1, Len(s) - 1)) ELSE s

TrimSpace(s) == TrimRight(TrimLeft(s))

\* The place of the first sep in s, 0 when there is none.
IndexOf(s, sep) ==
    IF \A i \in 1..Len(s) : s[i] # sep
    THEN 0
    ELSE CHOOSE i \in 1..Len(s) : s[i] = sep /\ \A j \in 1..(i - 1) : s[j] # sep

\* strings.Split(s, sep)
RECURSIVE Split(_, _)
Split(s, sep) ==
    LET i == IndexOf(s, sep) IN
    IF i = 0
    THEN <<s>>
    ELSE <<SubSeq(s, 1, i - 1)>> \o Split(SubSeq(s, i + 1, Len(s)), sep)

\* strings.SplitN(s, sep, 2)
SplitN2(s, sep) ==
    LET i == IndexOf(s, sep) IN
    IF i = 0
    THEN <<s>>
    ELSE <<SubSeq(s, 1, i - 1), SubSeq(s, i + 1, Len(s))>>

parseCommaSeparated(s) ==
    LET parts == Split(s, ",")
        trimmed == [i \in 1..Len(parts) |-> TrimSpace(parts[i])] IN
    SelectSeq(trimmed, LAMBDA part : part # <<>>)

\* for _, mapping := range parseCommaSeparated(v) { ... cfg.BucketMappings[..] = .. }
RECURSIVE parseBucketMap(_, _)
parseBucketMap(entries, mappings) ==
    IF entries = <<>>
    THEN mappings
    ELSE LET parts == SplitN2(Head(entries), ":")
             local == StringOf(TrimSpace(parts[1]))
             next == IF Len(parts) = 2
                     THEN [b \in DOMAIN mappings \cup {local} |->
                              IF b = local
                              THEN StringOf(TrimSpace(parts[2]))
                              ELSE mappings[b]]
                     ELSE mappings IN
         parseBucketMap(Tail(entries), next)

DefaultConfig ==
    [ListenAddr |-> ":9000",
     BackendType |-> "disk",
     DataDir |-> "/data",
     LocalStackEndpoint |-> "http://localhost:4566",
     AWSRegion |-> "us-east-1",
     BucketMappings |-> <<>>,
     InitBuckets |-> <<>>]

\* The environment: "" (or the empty sequence) is a variable that is not set.
EnvVars ==
    [S3LAZY_CONFIG_FILE : {"", "/etc/s3lazy.yaml"},
     S3LAZY_LISTEN_ADDR : {"", ":8080"},
     S3LAZY_BACKEND : {"", "memory", "local", "localstack", "aws"},
     S3LAZY_DATA_DIR : {"", "/env/data"},
     S3LAZY_LOCALSTACK_ENDPOINT : {"", "http://env:4566"},
     S3LAZY_AWS_REGION : {"", "eu-west-1"},
     AWS_REGION : {"", "us-west-2"},
     S3LAZY_INIT_BUCKETS : {<<>>, <<"dev">>, <<" ", "dev", " ", ",", ",", "prod">>},
     S3LAZY_BUCKET_MAP : {<<>>, <<"dev", ":", "prod">>,
                          <<" ", "dev", " ", ":", " ", "dev", ",", "prod">>}]

\* What the config file holds: a file of another field, a file of two
\* fields, a file with an empty region, a file of every field.
FileData ==
    {[other_field |-> "x"],
     [backend_type |-> "localstack", aws_region |-> "", init_buckets |-> <<"dev">>],
     [listen_addr |-> ":8888", backend_type |-> "disk"],
     [listen_addr |-> ":8888",
      backend_type |-> "localstack",
      data_dir |-> "/yaml/data",
      localstack_endpoint |-> "http://yaml-localstack:4566",
      aws_region |-> "eu-central-1",
      init_buckets |-> <<"prod">>,
      bucket_mappings |-> [b \in {"prod"} |-> "dev"]]}

NoFile == [status |-> "none", data |-> [other_field |-> ""]]
ConfigFiles ==
    {[status |-> "unreadable", data |-> [other_field |-> ""]]}
        \cup {[status |-> st, data |-> d] : st \in {"malformed", "ok"}, d \in FileData}

\* yaml.Unmarshal(data, cfg): a field of the file replaces the value cfg
\* holds; a mapping's entries are put into the map cfg holds.
yaml_Unmarshal(data, cfg) ==
    [ListenAddr |->
         IF "listen_addr" \in DOMAIN data THEN data.listen_addr ELSE cfg.ListenAddr,
     BackendType |->
         IF "backend_type" \in DOMAIN data THEN data.backend_type ELSE cfg.BackendType,
     DataDir |->
         IF "data_dir" \in DOMAIN data THEN data.data_dir ELSE cfg.DataDir,
     LocalStackEndpoint |->
         IF "localstack_endpoint" \in DOMAIN data
         THEN data.localstack_endpoint
         ELSE cfg.LocalStackEndpoint,
     AWSRegion |->
         IF "aws_region" \in DOMAIN data THEN data.aws_region ELSE cfg.AWSRegion,
     BucketMappings |->
         IF "bucket_mappings" \in DOMAIN data
         THEN [b \in DOMAIN cfg.BucketMappings \cup DOMAIN data.bucket_mappings |->
                  IF b \in DOMAIN data.bucket_mappings
                  THEN data.bucket_mappings[b]
                  ELSE cfg.BucketMappings[b]]
         ELSE cfg.BucketMappings,
     InitBuckets |->
         IF "init_buckets" \in DOMAIN data THEN data.init_buckets ELSE cfg.InitBuckets]

\* The config-file part of LoadConfig: a file that cannot be read or parsed
\* is logged and leaves cfg as it is.
LoadConfig_file(env, file, cfg) ==
    IF env.S3LAZY_CONFIG_FILE # "" /\ file.status = "ok"
    THEN yaml_Unmarshal(file.data, cfg)
    ELSE cfg

\* The environment part of LoadConfig.
LoadConfig_env(env, cfg) ==
    LET region == IF env.S3LAZY_AWS_REGION # "" THEN env.S3LAZY_AWS_REGION
                  ELSE IF env.AWS_REGION # "" THEN env.AWS_REGION
                  ELSE cfg.AWSRegion
        parts == parseCommaSeparated(env.S3LAZY_INIT_BUCKETS) IN
    [ListenAddr |->
         IF env.S3LAZY_LISTEN_ADDR # "" THEN env.S3LAZY_LISTEN_ADDR ELSE cfg.ListenAddr,
     BackendType |->
         IF env.S3LAZY_BACKEND # "" THEN env.S3LAZY_BACKEND ELSE cfg.BackendType,
     DataDir |->
         IF env.S3LAZY_DATA_DIR # "" THEN env.S3LAZY_DATA_DIR ELSE cfg.DataDir,
     LocalStackEndpoint |->
         IF env.S3LAZY_LOCALSTACK_ENDPOINT # ""
         THEN env.S3LAZY_LOCALSTACK_ENDPOINT
         ELSE cfg.LocalStackEndpoint,
     AWSRegion |-> region,
     BucketMappings |->
         IF env.S3LAZY_BUCKET_MAP # <<>>
         THEN parseBucketMap(parseCommaSeparated(env.S3LAZY_BUCKET_MAP), cfg.BucketMappings)
         ELSE cfg.BucketMappings,
     InitBuckets |->
         IF env.S3LAZY_INIT_BUCKETS # <<>>
         THEN [i \in 1..Len(parts) |-> StringOf(parts[i])]
         ELSE cfg.InitBuckets]

LoadConfig(env, file) == LoadConfig_env(env, LoadConfig_file(env, file, DefaultConfig))

(***************************************************************************)
(* Startup (main.go).                                                      *)
(***************************************************************************)
UnknownBackendType(type) ==
    [kind |-> "fmt.Errorf", code |-> "", name |-> "unknown backend type: " \o type]
MkdirAllError == [kind |-> "fs.PathError", code |-> "", name |-> "mkdir"]
LoadDefaultConfigError == [kind |-> "config", code |-> "", name |-> "LoadDefaultConfig"]

NoBackend == [type |-> "nil", region |-> "", endpoint |-> "", dir |-> ""]

\* createLocalBackend(cfg); mkdirAll is what os.MkdirAll(cfg.DataDir) gives.
createLocalBackend(cfg, mkdirAll) ==
    CASE cfg.BackendType = "localstack" ->
           [backend |-> [type |-> "localstack", region |-> cfg.AWSRegion,
                         endpoint |-> cfg.LocalStackEndpoint, dir |-> ""],
            err |-> NoError]
      [] cfg.BackendType = "local" ->
           IF mkdirAll # NoError
           THEN [backend |-> NoBackend, err |-> mkdirAll]
           ELSE [backend |-> [type |-> "local", region |-> "", endpoint |-> "",
                              dir |-> cfg.DataDir],
                 err |-> NoError]
      [] OTHER ->
           [backend |-> NoBackend, err |-> UnknownBackendType(cfg.BackendType)]

\* Mutant: the location constraint goes with every request.
CreateBucketInput_always(name, region) ==
    [Bucket |-> name, LocationConstraint |-> region]

\* The request of LocalStackBackend.CreateBucket: the LocationConstraint is
\* set for a region other than "" and us-east-1.
CreateBucketInput(name, region) ==
    [Bucket |-> name,
     LocationConstraint |-> IF region # "" /\ region # "us-east-1" THEN region ELSE NoValue]

NoEnv == [v \in {"S3LAZY_CONFIG_FILE"} |-> ""]

\* The startup is over: the server serves.
Serving ==
    [pc |-> "serving", env |-> NoEnv, file |-> NoFile, cfg |-> DefaultConfig,
     local |-> NoBackend, err |-> NoError, todo |-> <<>>, requests |-> <<>>, log |-> <<>>]

InitMain ==
    /\ \E env \in EnvVars, file \in ConfigFiles \cup {NoFile} :
          /\ (env.S3LAZY_CONFIG_FILE = "") = (file = NoFile)
          /\ main = [pc |-> "LoadConfig", env |-> env, file |-> file, cfg |-> DefaultConfig,
                     local |-> NoBackend, err |-> NoError, todo |-> <<>>,
                     requests |-> <<>>, log |-> <<>>]
    /\ backend = "nil"
    /\ localBuckets \in {{}, {"dev"}}
    /\ localObjects = EmptyStoreContents
    /\ awsBuckets = Buckets
    /\ awsObjects = EmptyStoreContents
    /\ bucketMapping = <<>>
    /\ mu = "unlocked"
    /\ setter = NoSetter
    /\ pc = [p \in Clients |-> "idle"]
    /\ req = [p \in Clients |-> NoRequest]
    /\ ret = [p \in Clients |-> NoReturn]
    /\ awsObj = [p \in Clients |-> NoOutput]
    /\ awsBucket = [p \in Clients |-> ""]
    /\ localCalls = [p \in Clients |-> <<>>]
    /\ awsCalls = [p \in Clients |-> <<>>]
    /\ pre = [p \in Clients |-> NoSnapshot]
    /\ open = [p \in Clients |-> {}]
    /\ fdb = NoForceDelete
    /\ shutdown = NoShutdown

mainFrame ==
    <<localBuckets, localObjects, awsBuckets, awsObjects, mu, setter, pc, req, ret, awsObj,
      awsBucket, localCalls, awsCalls, pre, open, fdb, shutdown>>

\* cfg := LoadConfig()
main_LoadConfig ==
    /\ main.pc = "LoadConfig"
    /\ main' = [main EXCEPT !.pc = "createAWSClient",
                            !.cfg = LoadConfig(main.env, main.file)]
    /\ UNCHANGED <<backend, bucketMapping, mainFrame>>

\* awsClient, err := createAWSClient(cfg); log.Fatalf on an error.
main_createAWSClient ==
    /\ main.pc = "createAWSClient"
    /\ \E err \in {NoError, LoadDefaultConfigError} :
          main' = [main EXCEPT !.pc = IF err = NoError THEN "createLocalBackend" ELSE "Fatalf",
                               !.err = err]
    /\ UNCHANGED <<backend, bucketMapping, mainFrame>>

\* localBackend, err := createLocalBackend(cfg); log.Fatalf on an error.
main_createLocalBackend ==
    /\ main.pc = "createLocalBackend"
    /\ \E mkdirAll \in {NoError, MkdirAllError} :
          LET r == createLocalBackend(main.cfg, mkdirAll) IN
          /\ main' = [main EXCEPT !.pc = IF r.err = NoError THEN "SetBucketMappings"
                                         ELSE "Fatalf",
                                  !.local = r.backend,
                                  !.err = r.err]
          /\ backend' = r.backend.type
    /\ UNCHANGED <<bucketMapping, mainFrame>>

\* Mutant: main goes on to the init buckets without installing the mapping.
main_SetBucketMappings_notInstalled ==
    /\ main.pc = "SetBucketMappings"
    /\ main' = [main EXCEPT !.pc = "CreateBucket", !.todo = main.cfg.InitBuckets]
    /\ UNCHANGED <<backend, bucketMapping, mainFrame>>

\* lazyBackend := NewLazyBackend(localBackend, awsClient)
\* if len(cfg.BucketMappings) > 0 { lazyBackend.SetBucketMappings(cfg.BucketMappings) }
main_SetBucketMappings ==
    /\ main.pc = "SetBucketMappings"
    /\ bucketMapping' = IF DOMAIN main.cfg.BucketMappings # {}
                        THEN main.cfg.BucketMappings
                        ELSE bucketMapping
    /\ main' = [main EXCEPT !.pc = "CreateBucket", !.todo = main.cfg.InitBuckets]
    /\ UNCHANGED <<backend, mainFrame>>

\* for _, bucket := range cfg.InitBuckets { lazyBackend.CreateBucket(bucket) }:
\* one round of the loop; an error is logged and the loop goes on.
main_CreateBucket ==
    /\ main.pc = "CreateBucket"
    /\ main.todo # <<>>
    /\ \E fault \in Faults :
          LET bucket == Head(main.todo)
              r == local_CreateBucket(bucket, fault) IN
          /\ localBuckets' = r.buckets
          /\ main' = [main EXCEPT
                 !.todo = Tail(@),
                 !.requests = IF backend = "localstack"
                              THEN Append(@, CreateBucketInput(bucket, main.local.region))
                              ELSE @,
                 !.log = Append(@, [bucket |-> bucket, err |-> r.err])]
    /\ UNCHANGED <<backend, bucketMapping, localObjects, awsBuckets, awsObjects, mu, setter,
                   pc, req, ret, awsObj, awsBucket, localCalls, awsCalls, pre, open, fdb, shutdown>>

\* The loop is over: the server is built and server.ListenAndServe() called.
main_ListenAndServe ==
    /\ main.pc = "CreateBucket"
    /\ main.todo = <<>>
    /\ main' = [main EXCEPT !.pc = "ListenAndServe"]
    /\ UNCHANGED <<backend, bucketMapping, mainFrame>>

NextMain ==
    \/ main_LoadConfig
    \/ main_createAWSClient
    \/ main_createLocalBackend
    \/ main_SetBucketMappings
    \/ main_CreateBucket
    \/ main_ListenAndServe

SpecMain == InitMain /\ [][NextMain]_vars

(***************************************************************************)
(* Specification: NewLazyBackend over empty stores, then one client        *)
(* calling the backend, one call at a time.                                *)
(***************************************************************************)
Init ==
    /\ backend \in BackendTypes
    /\ main = Serving
    /\ localBuckets = {}
    /\ localObjects = EmptyStoreContents
    /\ awsBuckets = {}
    /\ awsObjects = EmptyStoreContents
    /\ bucketMapping = <<>>
    /\ mu = "unlocked"
    /\ setter = NoSetter
    /\ pc = [p \in Clients |-> "idle"]
    /\ req = [p \in Clients |-> NoRequest]
    /\ ret = [p \in Clients |-> NoReturn]
    /\ awsObj = [p \in Clients |-> NoOutput]
    /\ awsBucket = [p \in Clients |-> ""]
    /\ localCalls = [p \in Clients |-> <<>>]
    /\ awsCalls = [p \in Clients |-> <<>>]
    /\ pre = [p \in Clients |-> NoSnapshot]
    /\ open = [p \in Clients |-> {}]
    /\ fdb = NoForceDelete
    /\ shutdown = NoShutdown

\* The handler has returned; the client is free to call again.
Return(p) ==
    /\ pc[p] = "done"
    /\ pc' = [pc EXCEPT ![p] = "idle"]
    /\ req' = [req EXCEPT ![p] = NoRequest]
    /\ ret' = [ret EXCEPT ![p] = NoReturn]
    /\ awsObj' = [awsObj EXCEPT ![p] = NoOutput]
    /\ awsBucket' = [awsBucket EXCEPT ![p] = ""]
    /\ localCalls' = [localCalls EXCEPT ![p] = <<>>]
    /\ awsCalls' = [awsCalls EXCEPT ![p] = <<>>]
    /\ pre' = [pre EXCEPT ![p] = NoSnapshot]
    /\ open' = [open EXCEPT ![p] = {}]
    /\ UNCHANGED <<shutdown, fdb, main, backend, storeVars, originVars, mappingVars>>

Quiescent == \A p \in Clients : pc[p] = "idle"

Handler(p) ==
    \/ CallGetObject(p)
    \/ GetObject_local(p)
    \/ GetObject_awsBucketName(p)
    \/ GetObject_aws(p)
    \/ GetObject_awsNoAnswer(p)
    \/ GetObject_cache(p)
    \/ GetObject_return(p)
    \/ CallHeadObject(p)
    \/ HeadObject_local(p)
    \/ HeadObject_awsBucketName(p)
    \/ HeadObject_aws(p)
    \/ HeadObject_awsNoAnswer(p)
    \/ CallCopyObject(p)
    \/ CopyObject_local(p)
    \/ PutObject(p)
    \/ DeleteObject(p)
    \/ CreateBucket(p)
    \/ DeleteBucket(p)
    \/ ListBuckets(p)
    \/ ListBucket(p)
    \/ BucketExists(p)
    \/ ForceDeleteBucket(p)
    \/ DeleteMulti(p)
    \/ Return(p)

Next ==
    \/ setter.pc = "idle" /\ Handler(MainClient)
    \/ Quiescent /\ SetBucketMappings
    \/ Quiescent /\ setter.pc = "idle" /\ Origin

Spec == Init /\ [][Next]_vars

(***************************************************************************)
(* Concurrent specification: the HTTP server runs every request on its own *)
(* goroutine, so two clients' calls interleave statement by statement, and *)
(* SetBucketMappings runs beside them.  Both stores have both buckets; the *)
(* origin holds one object under "dev" and a different one under "prod"    *)
(* and does not change; the clients work on the key of bucket "dev" with   *)
(* no range, and no store call meets a fault.                              *)
(***************************************************************************)
InitConcurrent ==
    /\ backend \in BackendTypes
    /\ main = Serving
    /\ localBuckets = Buckets
    /\ localObjects = EmptyStoreContents
    /\ awsBuckets = Buckets
    /\ awsObjects = [bk \in Buckets \X Keys |->
                        IF bk[1] = "dev" THEN SampleObject(1) ELSE SampleObject(MaxSize)]
    /\ bucketMapping = <<>>
    /\ mu = "unlocked"
    /\ setter = NoSetter
    /\ pc = [p \in Clients |-> "idle"]
    /\ req = [p \in Clients |-> NoRequest]
    /\ ret = [p \in Clients |-> NoReturn]
    /\ awsObj = [p \in Clients |-> NoOutput]
    /\ awsBucket = [p \in Clients |-> ""]
    /\ localCalls = [p \in Clients |-> <<>>]
    /\ awsCalls = [p \in Clients |-> <<>>]
    /\ pre = [p \in Clients |-> NoSnapshot]
    /\ open = [p \in Clients |-> {}]
    /\ fdb = NoForceDelete
    /\ shutdown = NoShutdown

\* The calls the concurrent clients make.
Focused(p) ==
    /\ req[p].bucket \in {"", "dev"}
    /\ req[p].dstBucket \in {"", "dev"}
    /\ ~req[p].rangeRequest.set
    /\ \A i \in 1..Len(localCalls[p]) :
          localCalls[p][i].err.kind \notin {"io", "transport"}
              /\ localCalls[p][i].err.code # "InternalError"
    /\ \A i \in 1..Len(awsCalls[p]) : awsCalls[p][i].err.kind # "transport"

ConcurrentHandler(p) ==
    \/ CallGetObject(p) /\ Focused(p)'
    \/ GetObject_local(p) /\ Focused(p)'
    \/ GetObject_awsBucketName(p)
    \/ GetObject_aws(p) /\ Focused(p)'
    \/ GetObject_cache(p) /\ Focused(p)'
    \/ GetObject_return(p) /\ Focused(p)'
    \/ CallHeadObject(p) /\ Focused(p)'
    \/ HeadObject_local(p) /\ Focused(p)'
    \/ HeadObject_awsBucketName(p)
    \/ HeadObject_aws(p) /\ Focused(p)'
    \/ CallCopyObject(p) /\ Focused(p)'
    \/ CopyObject_local(p) /\ Focused(p)'
    \/ PutObject(p) /\ Focused(p)'
    \/ DeleteObject(p) /\ Focused(p)'
    \/ Return(p)

NextConcurrent == \E p \in Clients : ConcurrentHandler(p)

SpecConcurrent == InitConcurrent /\ [][NextConcurrent]_vars

(***************************************************************************)
(* Mapping specification: one client's GetObject, HeadObject and           *)
(* CopyObject calls in flight while SetBucketMappings calls run beside     *)
(* them.  The goroutine inside SetBucketMappings keeps running until it    *)
(* has unlocked b.mu (weak fairness of its statements), a call keeps       *)
(* running, and a reader blocked in b.mu.RLock() is let in when the writer *)
(* unlocks, before any later writer (sync.RWMutex; strong fairness of the  *)
(* lookup).                                                                *)
(***************************************************************************)
MappingHandler(p) ==
    \/ CallGetObject(p) /\ Focused(p)'
    \/ GetObject_local(p) /\ Focused(p)'
    \/ GetObject_awsBucketName(p)
    \/ GetObject_aws(p) /\ Focused(p)'
    \/ GetObject_cache(p) /\ Focused(p)'
    \/ GetObject_return(p) /\ Focused(p)'
    \/ CallHeadObject(p) /\ Focused(p)'
    \/ HeadObject_local(p) /\ Focused(p)'
    \/ HeadObject_awsBucketName(p)
    \/ HeadObject_aws(p) /\ Focused(p)'
    \/ CallCopyObject(p) /\ Focused(p)'
    \/ CopyObject_local(p) /\ Focused(p)'
    \/ DeleteObject(p) /\ Focused(p)'
    \/ Return(p)

NextMapping ==
    \/ MappingHandler(MainClient)
    \/ SetBucketMappings

SetBucketMappings_running ==
    \/ SetBucketMappings_make
    \/ SetBucketMappings_range
    \/ SetBucketMappings_Unlock

InFlight(p) ==
    \/ GetObject_local(p) /\ Focused(p)'
    \/ GetObject_aws(p) /\ Focused(p)'
    \/ GetObject_cache(p) /\ Focused(p)'
    \/ GetObject_return(p) /\ Focused(p)'
    \/ HeadObject_local(p) /\ Focused(p)'
    \/ HeadObject_aws(p) /\ Focused(p)'
    \/ CopyObject_local(p) /\ Focused(p)'

SpecMapping ==
    /\ InitConcurrent
    /\ [][NextMapping]_vars
    /\ WF_vars(SetBucketMappings_running)
    /\ WF_vars(InFlight(MainClient))
    /\ SF_vars(GetObject_awsBucketName(MainClient))
    /\ SF_vars(HeadObject_awsBucketName(MainClient))

(***************************************************************************)
(* Misses specification: the clients make GetObject calls only, for the    *)
(* key of bucket "dev", which the cache lacks at first and the origin      *)
(* holds; nothing else writes to the cache or deletes from it, the origin  *)
(* does not change and no store call meets a fault.                        *)
(***************************************************************************)
MissesHandler(p) ==
    \/ CallGetObject(p) /\ Focused(p)'
    \/ GetObject_local(p) /\ Focused(p)'
    \/ GetObject_awsBucketName(p)
    \/ GetObject_aws(p) /\ Focused(p)'
    \/ GetObject_cache(p) /\ Focused(p)'
    \/ GetObject_return(p) /\ Focused(p)'
    \/ Return(p)

NextMisses == \E p \in Clients : MissesHandler(p)

SpecMisses == InitConcurrent /\ [][NextMisses]_vars

(***************************************************************************)
(* Two clients that read and delete one key: GetObject, DeleteObject and   *)
(* DeleteMulti on the cache, the origin holding the object throughout.  A  *)
(* delete is issued while no other call is open, so a call that is open    *)
(* beside a finished delete began after the delete.                        *)
(***************************************************************************)
OthersIdle(p) == \A r \in Clients \ {p} : Idle(r)

RefetchHandler(p) ==
    \/ CallGetObject(p) /\ Focused(p)'
    \/ GetObject_local(p) /\ Focused(p)'
    \/ GetObject_awsBucketName(p)
    \/ GetObject_aws(p) /\ Focused(p)'
    \/ GetObject_cache(p) /\ Focused(p)'
    \/ GetObject_return(p) /\ Focused(p)'
    \/ OthersIdle(p) /\ DeleteObject(p) /\ Focused(p)'
    \/ OthersIdle(p) /\ DeleteMulti(p) /\ Focused(p)'
    \/ Return(p)

NextRefetch == \E p \in Clients : RefetchHandler(p)

SpecRefetch == InitConcurrent /\ [][NextRefetch]_vars

(***************************************************************************)
(* One ForceDeleteBucket call of the LocalStack store on a bucket that     *)
(* holds any of the NumKeys objects, or on a bucket that does not exist;    *)
(* every request can meet a fault.                                         *)
(***************************************************************************)
InitForceDelete ==
    /\ backend = "localstack"
    /\ main = Serving
    /\ localBuckets = {}
    /\ localObjects = EmptyStoreContents
    /\ awsBuckets = {}
    /\ awsObjects = EmptyStoreContents
    /\ bucketMapping = <<>>
    /\ mu = "unlocked"
    /\ setter = NoSetter
    /\ pc = [p \in Clients |-> "idle"]
    /\ req = [p \in Clients |-> NoRequest]
    /\ ret = [p \in Clients |-> NoReturn]
    /\ awsObj = [p \in Clients |-> NoOutput]
    /\ awsBucket = [p \in Clients |-> ""]
    /\ localCalls = [p \in Clients |-> <<>>]
    /\ awsCalls = [p \in Clients |-> <<>>]
    /\ pre = [p \in Clients |-> NoSnapshot]
    /\ open = [p \in Clients |-> {}]
    /\ \E exists \in BOOLEAN, keys \in SUBSET PageKeys :
          /\ ~exists => keys = {}
          /\ fdb = [NoForceDelete EXCEPT !.pc = "paginator", !.name = "dev",
                                         !.exists = exists, !.keys = keys]
    /\ shutdown = NoShutdown

NextForceDelete ==
    \/ ForceDeleteBucket_NextPage
    \/ ForceDeleteBucket_DeleteObjects
    \/ ForceDeleteBucket_DeleteBucket

SpecForceDelete == InitForceDelete /\ [][NextForceDelete]_vars

(***************************************************************************)
(* Startup, then service: main runs from LoadConfig to ListenAndServe, and *)
(* from then on the HTTP server hands a client's GetObject and HeadObject  *)
(* requests to the LazyBackend.  The environment sets the backend type,    *)
(* the init buckets and the bucket map; the config file, when there is     *)
(* one, is the file of every field; the origin holds an object under each  *)
(* bucket.                                                                 *)
(***************************************************************************)
InitStartup ==
    /\ \E env \in EnvVars, file \in ConfigFiles \cup {NoFile} :
          /\ (env.S3LAZY_CONFIG_FILE = "") = (file = NoFile)
          /\ env.S3LAZY_LISTEN_ADDR = ""
          /\ env.S3LAZY_DATA_DIR = ""
          /\ env.S3LAZY_LOCALSTACK_ENDPOINT = ""
          /\ env.S3LAZY_AWS_REGION = ""
          /\ env.AWS_REGION = ""
          /\ env.S3LAZY_BACKEND \in {"", "local", "localstack"}
          /\ file # NoFile => file.status = "ok" /\ "bucket_mappings" \in DOMAIN file.data
          /\ main = [pc |-> "LoadConfig", env |-> env, file |-> file, cfg |-> DefaultConfig,
                     local |-> NoBackend, err |-> NoError, todo |-> <<>>,
                     requests |-> <<>>, log |-> <<>>]
    /\ backend = "nil"
    /\ localBuckets \in {{}, {"dev"}}
    /\ localObjects = EmptyStoreContents
    /\ awsBuckets = Buckets
    /\ awsObjects = [bk \in Buckets \X Keys |->
                        IF bk[1] = "dev" THEN SampleObject(1) ELSE SampleObject(MaxSize)]
    /\ bucketMapping = <<>>
    /\ mu = "unlocked"
    /\ setter = NoSetter
    /\ pc = [p \in Clients |-> "idle"]
    /\ req = [p \in Clients |-> NoRequest]
    /\ ret = [p \in Clients |-> NoReturn]
    /\ awsObj = [p \in Clients |-> NoOutput]
    /\ awsBucket = [p \in Clients |-> ""]
    /\ localCalls = [p \in Clients |-> <<>>]
    /\ awsCalls = [p \in Clients |-> <<>>]
    /\ pre = [p \in Clients |-> NoSnapshot]
    /\ open = [p \in Clients |-> {}]
    /\ fdb = NoForceDelete
    /\ shutdown = NoShutdown

\* server.ListenAndServe() accepts requests: each runs a LazyBackend method.
main_Serve(p) ==
    /\ main.pc = "ListenAndServe"
    /\ \/ CallGetObject(p)
       \/ GetObject_local(p)
       \/ GetObject_awsBucketName(p)
       \/ GetObject_aws(p)
       \/ GetObject_cache(p)
       \/ GetObject_return(p)
       \/ CallHeadObject(p)
       \/ HeadObject_local(p)
       \/ HeadObject_awsBucketName(p)
       \/ HeadObject_aws(p)
       \/ Return(p)

NextStartup ==
    \/ NextMain
    \/ main_Serve(MainClient)

SpecStartup == InitStartup /\ [][NextStartup]_vars

(***************************************************************************)
(* Serving and shutting down: main is at server.ListenAndServe(), the      *)
(* goroutine at <-quit.  Signals arrive, clients open and finish           *)
(* connections, the listener can fail; the goroutines and the timer of the *)
(* shutdown context take their steps.                                      *)
(***************************************************************************)
shutdownFrame == <<fdb, open, backend, storeVars, originVars, mappingVars, frameVars>>

Running == shutdown.exit = "running"

\* signal.Notify(quit, SIGINT, SIGTERM): a signal is put into quit when the
\* buffer of one has room, and dropped otherwise.
signal_Notify ==
    /\ Running
    /\ shutdown.signals < MaxSignals
    /\ \E sig \in {"SIGINT", "SIGTERM"} :
          shutdown' = [shutdown EXCEPT !.signals = @ + 1, !.quit = 1]
    /\ UNCHANGED <<main, shutdownFrame>>

\* <-quit; log.Println("Shutting down server..."); ctx, cancel := context.WithTimeout(...)
go_quit ==
    /\ Running
    /\ shutdown.go = "<-quit"
    /\ shutdown.quit = 1
    /\ shutdown' = [shutdown EXCEPT !.quit = 0,
                                    !.go = "Shutdown",
                                    !.ctx = ShutdownContext,
                                    !.log = Append(@, "Shutting down server...")]
    /\ UNCHANGED <<main, shutdownFrame>>

\* server.Shutdown(ctx) begins: the server is marked as shutting down and its
\* listeners are closed.
go_Shutdown ==
    /\ Running
    /\ shutdown.go = "Shutdown"
    /\ shutdown' = [shutdown EXCEPT !.go = "Shutdown_wait", !.server = "inShutdown"]
    /\ UNCHANGED <<main, shutdownFrame>>

\* The deadline of the shutdown context passes.
ctx_Done ==
    /\ Running
    /\ shutdown.go \in {"Shutdown", "Shutdown_wait"}
    /\ shutdown.ctx.timeout > 0
    /\ ~shutdown.ctx.expired
    /\ shutdown' = [shutdown EXCEPT !.ctx.expired = TRUE]
    /\ UNCHANGED <<main, shutdownFrame>>

\* server.Shutdown(ctx) returns: nil once no connection is active, ctx.Err()
\* once the context is done.
\* if err != nil { log.Fatalf("Server forced to shutdown: %v", err) }
go_Shutdown_return ==
    /\ Running
    /\ shutdown.go = "Shutdown_wait"
    /\ \/ /\ shutdown.conns = 0
          /\ shutdown' = [shutdown EXCEPT !.go = "close(done)"]
       \/ /\ shutdown.ctx.expired
          /\ shutdown' = [shutdown EXCEPT
                 !.go = "end",
                 !.exit = "os.Exit(1)",
                 !.log = Append(@, "Server forced to shutdown")]
    /\ UNCHANGED <<main, shutdownFrame>>

\* close(done); the goroutine ends.
go_close ==
    /\ Running
    /\ shutdown.go = "close(done)"
    /\ shutdown' = [shutdown EXCEPT !.go = "end", !.done = "closed"]
    /\ UNCHANGED <<main, shutdownFrame>>

\* A client opens a connection to the listening server.
conn_Open ==
    /\ Running
    /\ shutdown.server = "listening"
    /\ shutdown.conns + shutdown.served < MaxConns
    /\ shutdown' = [shutdown EXCEPT !.conns = @ + 1]
    /\ UNCHANGED <<main, shutdownFrame>>

\* A connection's request is over and the connection closes.
conn_Close ==
    /\ Running
    /\ shutdown.conns > 0
    /\ shutdown' = [shutdown EXCEPT !.conns = @ - 1, !.served = @ + 1]
    /\ UNCHANGED <<main, shutdownFrame>>

\* server.ListenAndServe(): ErrServerClosed when the server is already shutting
\* down; otherwise the listener is opened, or opening it fails.
main_ListenAndServe_Listen ==
    /\ Running
    /\ main.pc = "ListenAndServe"
    /\ \/ /\ shutdown.server = "inShutdown"
          /\ main' = [main EXCEPT !.pc = "<-done"]
          /\ shutdown' = shutdown
       \/ /\ shutdown.server = "new"
          /\ \/ /\ main' = [main EXCEPT !.pc = "Serve"]
                /\ shutdown' = [shutdown EXCEPT !.server = "listening"]
             \/ /\ main' = [main EXCEPT !.pc = "Fatalf"]
                /\ shutdown' = shutdown
    /\ UNCHANGED shutdownFrame

\* The accept loop ends: ErrServerClosed after Shutdown closed the listeners.
main_ListenAndServe_ErrServerClosed ==
    /\ Running
    /\ main.pc = "Serve"
    /\ shutdown.server = "inShutdown"
    /\ main' = [main EXCEPT !.pc = "<-done"]
    /\ UNCHANGED <<shutdown, shutdownFrame>>

\* The accept loop ends with another error.
main_ListenAndServe_error ==
    /\ Running
    /\ main.pc = "Serve"
    /\ shutdown.server = "listening"
    /\ main' = [main EXCEPT !.pc = "Fatalf"]
    /\ UNCHANGED <<shutdown, shutdownFrame>>

\* log.Fatalf("Server failed: %v", err)
main_Fatalf ==
    /\ Running
    /\ main.pc = "Fatalf"
    /\ shutdown' = [shutdown EXCEPT !.exit = "os.Exit(1)", !.log = Append(@, "Server failed")]
    /\ UNCHANGED <<main, shutdownFrame>>

\* <-done; log.Println("Server stopped")
main_done ==
    /\ Running
    /\ main.pc = "<-done"
    /\ shutdown.done = "closed"
    /\ main' = [main EXCEPT !.pc = "return"]
    /\ shutdown' = [shutdown EXCEPT !.log = Append(@, "Server stopped")]
    /\ UNCHANGED shutdownFrame

\* main returns and the process ends.
main_return ==
    /\ Running
    /\ main.pc = "return"
    /\ shutdown' = [shutdown EXCEPT !.exit = "return"]
    /\ UNCHANGED <<main, shutdownFrame>>

InitShutdown ==
    /\ backend \in BackendTypes
    /\ main = [Serving EXCEPT !.pc = "ListenAndServe"]
    /\ localBuckets = {}
    /\ localObjects = EmptyStoreContents
    /\ awsBuckets = {}
    /\ awsObjects = EmptyStoreContents
    /\ bucketMapping = <<>>
    /\ mu = "unlocked"
    /\ setter = NoSetter
    /\ pc = [p \in Clients |-> "idle"]
    /\ req = [p \in Clients |-> NoRequest]
    /\ ret = [p \in Clients |-> NoReturn]
    /\ awsObj = [p \in Clients |-> NoOutput]
    /\ awsBucket = [p \in Clients |-> ""]
    /\ localCalls = [p \in Clients |-> <<>>]
    /\ awsCalls = [p \in Clients |-> <<>>]
    /\ pre = [p \in Clients |-> NoSnapshot]
    /\ open = [p \in Clients |-> {}]
    /\ fdb = NoForceDelete
    /\ shutdown = NoShutdown

NextShutdown ==
    \/ signal_Notify
    \/ go_quit
    \/ go_Shutdown
    \/ ctx_Done
    \/ go_Shutdown_return
    \/ go_close
    \/ conn_Open
    \/ conn_Close
    \/ main_ListenAndServe_Listen
    \/ main_ListenAndServe_ErrServerClosed
    \/ main_ListenAndServe_error
    \/ main_Fatalf
    \/ main_done
    \/ main_return

\* The goroutines run and the timer of the context fires; signals, clients
\* and listener failures come or do not.
SpecShutdown ==
    /\ InitShutdown
    /\ [][NextShutdown]_vars
    /\ WF_vars(go_quit)
    /\ WF_vars(go_Shutdown)
    /\ WF_vars(ctx_Done)
    /\ WF_vars(go_Shutdown_return)
    /\ WF_vars(go_close)
    /\ WF_vars(main_ListenAndServe_Listen)
    /\ WF_vars(main_ListenAndServe_ErrServerClosed)
    /\ WF_vars(main_Fatalf)
    /\ WF_vars(main_done)
    /\ WF_vars(main_return)

(***************************************************************************)
(* Vocabulary of the properties.                                           *)
(***************************************************************************)
Done(p, op) == pc[p] = "done" /\ req[p].op = op

\* The object the cache held under the request's (bucket, key) when the call began.
PreObject(p) == pre[p].objects[<<req[p].bucket, req[p].key>>]

\* The origin bucket the current mapping gives the request's bucket.
MappedBucket(p) ==
    IF req[p].bucket \in DOMAIN bucketMapping
    THEN bucketMapping[req[p].bucket]
    ELSE req[p].bucket

\* The object the origin holds for the request.
OriginObject(p) == awsObjects[<<MappedBucket(p), req[p].key>>]
OriginHolds(p) == MappedBucket(p) \in awsBuckets /\ OriginObject(p).present

\* The cache store as a whole, now and when the call began.
CacheNow == [buckets |-> localBuckets, objects |-> localObjects]
CacheUntouched(p) == CacheNow = pre[p]

\* An error that tells of a fault of a store or of the network, not of what the store holds.
IsFault(err) ==
    \/ err.kind \in {"io", "transport"}
    \/ err.kind = "ErrorCode" /\ err.code = "InternalError"

NoFault(p) ==
    /\ \A i \in 1..Len(localCalls[p]) : ~IsFault(localCalls[p][i].err)
    /\ \A i \in 1..Len(awsCalls[p]) : ~IsFault(awsCalls[p][i].err)

\* The cache store reported the absence of the request's key or bucket by name.
ReportedAbsent(p) ==
    /\ Len(localCalls[p]) >= 1
    /\ localCalls[p][1].err \in {KeyNotFound(req[p].key), BucketNotFound(req[p].bucket)}

\* The cache store's first answer was an error, and not one of the two absences.
ReportedOtherError(p) ==
    /\ Len(localCalls[p]) >= 1
    /\ localCalls[p][1].err # NoError
    /\ localCalls[p][1].err.code \notin {"NoSuchKey", "NoSuchBucket"}

(***************************************************************************)
(* Properties.                                                             *)
(***************************************************************************)

\* C1: a GetObject or HeadObject for a (bucket, key) the cache holds makes no
\* call to the origin, makes one call to the cache store and returns what
\* that call gave: its error, or the cached object (name, bytes of the range
\* asked for, content type, hash); the cache is left as it was.
C1_CacheHitNeverTouchesOrigin ==
    \A p \in Clients :
        (req[p].op \in {"GetObject", "HeadObject"} /\ PreObject(p).present) =>
            /\ awsCalls[p] = <<>>
            /\ pc[p] = "done" =>
                /\ Len(localCalls[p]) = 1
                /\ localCalls[p][1].op = req[p].op
                /\ ret[p].err = localCalls[p][1].err
                /\ CacheUntouched(p)
                /\ ret[p].err = NoError =>
                    /\ ret[p].obj.Name = req[p].key
                    /\ ret[p].obj.Contents =
                          IF req[p].op = "GetObject"
                          THEN RangeOf(PreObject(p).body, req[p].rangeRequest)
                          ELSE <<>>
                    /\ ret[p].obj.Metadata.ContentType = PreObject(p).ContentType
                    /\ ret[p].obj.Hash = ETagOf(PreObject(p).body)

\* A hit served while the origin holds a different object under the same name.
C1_Witness ==
    \E p \in Clients :
        /\ Done(p, "GetObject")
        /\ PreObject(p).present
        /\ ret[p].err = NoError
        /\ OriginHolds(p)
        /\ OriginObject(p).body # PreObject(p).body

C3_MappedFetchCachedUnderLocalName ==
    \A p \in Clients :
        ( /\ req[p].op = "GetObject"
          /\ req[p].bucket \in DOMAIN bucketMapping
          /\ bucketMapping[req[p].bucket] # req[p].bucket ) =>
            LET origin == bucketMapping[req[p].bucket] IN
            /\ \A i \in 1..Len(awsCalls[p]) : awsCalls[p][i].bucket = origin
            /\ \A i \in 1..Len(localCalls[p]) :
                  /\ localCalls[p][i].bucket = req[p].bucket
                  /\ localCalls[p][i].dstBucket # origin
            /\ localObjects[<<origin, req[p].key>>] = pre[p].objects[<<origin, req[p].key>>]
            /\ ( /\ Len(localCalls[p]) >= 2
                 /\ localCalls[p][2].err = NoError ) =>
                  /\ awsObjects[<<origin, req[p].key>>].present
                  /\ localObjects[<<req[p].bucket, req[p].key>>].present
                  /\ localObjects[<<req[p].bucket, req[p].key>>].body =
                        awsObjects[<<origin, req[p].key>>].body
            /\ pc[p] = "done" =>
                  /\ ret[p].err.name # origin
                  /\ ret[p].err.kind = "wrapError" => ret[p].err.bucket = req[p].bucket
                  /\ ret[p].err = NoError => ret[p].obj.Name = req[p].key

\* GetObject("dev", k) answered from origin bucket "prod" and cached under "dev".
C3_Witness ==
    \E p \in Clients :
        /\ Done(p, "GetObject")
        /\ req[p].bucket = "dev"
        /\ "dev" \in DOMAIN bucketMapping
        /\ bucketMapping["dev"] = "prod"
        /\ Len(awsCalls[p]) = 1
        /\ awsCalls[p][1].bucket = "prod"
        /\ ret[p].err = NoError
        /\ localObjects[<<"dev", req[p].key>>].present
        /\ ~awsObjects[<<"dev", req[p].key>>].present

\* C4: when the cache store's first answer to a GetObject or HeadObject is
\* an error other than key-not-found and bucket-not-found, the call has
\* returned that error as it is, with no object, after that one cache call,
\* no origin call and no change of the cache.
C4_OtherCacheErrorReturnedUnchanged ==
    \A p \in Clients :
        (req[p].op \in {"GetObject", "HeadObject"} /\ ReportedOtherError(p)) =>
            /\ pc[p] = "done"
            /\ ret[p] = Returns(localCalls[p][1].err, NoObject)
            /\ Len(localCalls[p]) = 1
            /\ awsCalls[p] = <<>>
            /\ CacheUntouched(p)

\* A HEAD answered with the store's generic NotFound while the origin holds the object.
C4_Witness ==
    \E p \in Clients :
        /\ Done(p, "HeadObject")
        /\ ReportedOtherError(p)
        /\ localCalls[p][1].err = ErrorCode("NotFound")
        /\ OriginHolds(p)

\* C5: when the cache store reported the absence and the origin call failed
\* (key missing, bucket missing, transport fault), GetObject and HeadObject
\* have returned KeyNotFound of the requested key, with no further call, and
\* the cache is as it was.
C5_OriginFailureIsKeyNotFound ==
    \A p \in Clients :
        ( /\ req[p].op \in {"GetObject", "HeadObject"}
          /\ ReportedAbsent(p)
          /\ Len(awsCalls[p]) >= 1
          /\ awsCalls[p][1].err # NoError ) =>
            /\ pc[p] = "done"
            /\ ret[p] = Returns(KeyNotFound(req[p].key), NoObject)
            /\ Len(localCalls[p]) = 1
            /\ Len(awsCalls[p]) = 1
            /\ CacheUntouched(p)

\* A GetObject whose origin fetch found no such bucket.
C5_Witness ==
    \E p \in Clients :
        /\ Done(p, "GetObject")
        /\ ReportedAbsent(p)
        /\ Len(awsCalls[p]) = 1
        /\ awsCalls[p][1].err = SdkApiError("NoSuchBucket")
        /\ ret[p].err = KeyNotFound(req[p].key)

\* C6: when the origin fetch of a GetObject succeeded and the cache store's
\* PutObject then failed, the call has returned, with no object, the error
\* "failed to cache <bucket>/<key>" wrapping the PutObject's error; that
\* error is not KeyNotFound and carries no NoSuchKey code; the PutObject was
\* the last cache call (no second GetObject) and the cache is as it was.
C6_FailedCacheWriteIsReported ==
    \A p \in Clients :
        ( /\ req[p].op = "GetObject"
          /\ Len(awsCalls[p]) = 1
          /\ awsCalls[p][1].err = NoError
          /\ Len(localCalls[p]) >= 2
          /\ localCalls[p][2].err # NoError ) =>
            /\ pc[p] = "done"
            /\ localCalls[p][2].op = "PutObject"
            /\ Len(localCalls[p]) = 2
            /\ ret[p].obj = NoObject
            /\ ret[p].err.kind = "wrapError"
            /\ ret[p].err.cause = localCalls[p][2].err
            /\ ret[p].err.bucket = req[p].bucket
            /\ ret[p].err.key = req[p].key
            /\ ret[p].err # KeyNotFound(req[p].key)
            /\ ~HasErrorCode(ret[p].err, "NoSuchKey")
            /\ CacheUntouched(p)

\* The origin holds the object, the cache has no such bucket: the write fails.
C6_Witness ==
    \E p \in Clients :
        /\ Done(p, "GetObject")
        /\ OriginHolds(p)
        /\ Len(localCalls[p]) = 2
        /\ localCalls[p][2].err = BucketNotFound(req[p].bucket)
        /\ ret[p].err.kind = "wrapError"

\* C7: during and after a HeadObject the cache store holds what it held when
\* the call began, and the only calls made on it are HeadObject calls.
C7_HeadObjectNeverWritesCache ==
    \A p \in Clients :
        req[p].op = "HeadObject" =>
            /\ CacheUntouched(p)
            /\ \A i \in 1..Len(localCalls[p]) : localCalls[p][i].op = "HeadObject"

\* A HEAD answered by the origin; the object is still not in the cache.
C7_Witness ==
    \E p \in Clients :
        /\ Done(p, "HeadObject")
        /\ Len(awsCalls[p]) = 1
        /\ ret[p].err = NoError
        /\ req[p].bucket \in localBuckets
        /\ ~localObjects[<<req[p].bucket, req[p].key>>].present

C9_HeadObjectHashNonEmpty ==
    \A p \in Clients :
        ( /\ Done(p, "HeadObject")
          /\ ReportedAbsent(p)
          /\ OriginHolds(p)
          /\ ret[p].err = NoError ) =>
            ret[p].obj.Hash # <<>>

\* C10: a CopyObject whose source the origin holds and the cache lacks, with
\* the source and destination buckets in the cache and no fault, succeeds,
\* and afterwards the cache holds the source and the destination, both with
\* the origin object's bytes.
C10_CopyObjectCachesSourceAndDestination ==
    \A p \in Clients :
        ( /\ Done(p, "CopyObject")
          /\ req[p].bucket \in pre[p].buckets
          /\ req[p].dstBucket \in pre[p].buckets
          /\ ~PreObject(p).present
          /\ OriginHolds(p)
          /\ NoFault(p) ) =>
            LET src == localObjects[<<req[p].bucket, req[p].key>>]
                dst == localObjects[<<req[p].dstBucket, req[p].dstKey>>] IN
            /\ ret[p].err = NoError
            /\ src.present
            /\ src.body = OriginObject(p).body
            /\ dst.present
            /\ dst.body = OriginObject(p).body

\* A copy from an origin-only source to another bucket: both are in the cache.
C10_Witness ==
    \E p \in Clients :
        /\ Done(p, "CopyObject")
        /\ req[p].bucket # req[p].dstBucket
        /\ ~PreObject(p).present
        /\ Len(awsCalls[p]) = 1
        /\ ret[p].err = NoError
        /\ localObjects[<<req[p].bucket, req[p].key>>].present
        /\ localObjects[<<req[p].dstBucket, req[p].dstKey>>].present

\* C11: every origin call of a GetObject that carries a range descriptor
\* carries that range descriptor.
C11_RangeForwardedToOrigin ==
    \A p \in Clients :
        (req[p].op = "GetObject" /\ req[p].rangeRequest.set) =>
            \A i \in 1..Len(awsCalls[p]) : awsCalls[p][i].ranged

\* C12: a GetObject with an absolute range [Start, End] that succeeds returns
\* End - Start + 1 bytes, the bytes at offsets Start..End of the object, and
\* with a from-end range of N returns the object's last N bytes; the object
\* is the cached one on a hit, and the origin's on a miss the same call
\* populated (no fault).
C12_RangeReturnsExactBytes ==
    \A p \in Clients :
        ( /\ Done(p, "GetObject")
          /\ req[p].rangeRequest.set
          /\ ret[p].err = NoError
          /\ NoFault(p) ) =>
            LET body == IF PreObject(p).present THEN PreObject(p).body
                        ELSE OriginObject(p).body
                r == req[p].rangeRequest
                c == ret[p].obj.Contents IN
            /\ ~PreObject(p).present =>
                  /\ OriginHolds(p)
                  /\ Len(awsCalls[p]) = 1
                  /\ localObjects[<<req[p].bucket, req[p].key>>].present
            /\ IF r.FromEnd
               THEN /\ Len(c) = r.End
                    /\ \A i \in 1..Len(c) : c[i] = body[Len(body) - r.End + i]
               ELSE /\ Len(c) = r.End - r.Start + 1
                    /\ \A i \in 1..Len(c) : c[i] = body[r.Start + i]

\* Bytes 1..1 of a two-byte object the origin alone held: the second byte.
C12_Witness ==
    \E p \in Clients :
        /\ Done(p, "GetObject")
        /\ req[p].rangeRequest = AbsRange(1, 1)
        /\ ~PreObject(p).present
        /\ Len(awsCalls[p]) = 1
        /\ ret[p].err = NoError
        /\ ret[p].obj.Contents = <<2>>
        /\ Len(OriginObject(p).body) = 2

PassThroughs ==
    {"ListBuckets", "ListBucket", "BucketExists", "CreateBucket", "DeleteBucket",
     "ForceDeleteBucket", "PutObject", "DeleteObject", "DeleteMulti"}

\* C13: a completed ListBuckets, ListBucket, BucketExists, CreateBucket,
\* DeleteBucket, ForceDeleteBucket, PutObject, DeleteObject or DeleteMulti has
\* made exactly one call on the cache store, of the same name and with the
\* same bucket, key, key list and prefix, has returned that call's error and
\* result as they are, and has made no origin call; a successful listing tells
\* what the cache held and a successful write or delete is in the cache.
C13_PassThrough ==
    \A p \in Clients :
        (pc[p] = "done" /\ req[p].op \in PassThroughs) =>
            /\ awsCalls[p] = <<>>
            /\ Len(localCalls[p]) = 1
            /\ LET c == localCalls[p][1]
                   slot == <<req[p].bucket, req[p].key>> IN
               /\ c.op = req[p].op
               /\ c.bucket = req[p].bucket
               /\ c.key = req[p].key
               /\ c.objects = req[p].objects
               /\ c.prefix = req[p].prefix
               /\ ret[p].err = c.err
               /\ ret[p].obj = c.obj
               /\ ret[p].err = NoError =>
                    CASE req[p].op = "ListBuckets" -> ret[p].obj = pre[p].buckets
                      [] req[p].op = "BucketExists" ->
                            ret[p].obj = (req[p].bucket \in pre[p].buckets)
                      [] req[p].op = "ListBucket" ->
                            ret[p].obj = ListedContents(pre[p].objects, req[p].bucket,
                                                        req[p].prefix)
                      [] req[p].op = "PutObject" ->
                            /\ localObjects[slot].present
                            /\ localObjects[slot].body = Payload(req[p].input)
                      [] req[p].op = "DeleteObject" -> ~localObjects[slot].present
                      [] req[p].op = "DeleteMulti" ->
                            \A k \in req[p].objects :
                                ~localObjects[<<req[p].bucket, k>>].present
                      [] req[p].op = "CreateBucket" -> req[p].bucket \in localBuckets
                      [] OTHER -> req[p].bucket \notin localBuckets

\* A listing under a prefix no key has, of a bucket that holds an object: nothing listed.
C13_Witness ==
    \E p \in Clients :
        /\ Done(p, "ListBucket")
        /\ req[p].prefix = "z"
        /\ \E k \in Keys : localObjects[<<req[p].bucket, k>>].present
        /\ ret[p].err = NoError
        /\ ret[p].obj = {}

\* C14: the only origin calls ever made are GetObject and HeadObject, and no
\* step of an orchestrator operation (a step that moves a client's call or a
\* SetBucketMappings call) changes a bucket or an object of the origin.
C14_OriginReadOnly ==
    /\ [](\A p \in Clients : \A i \in 1..Len(awsCalls[p]) :
             awsCalls[p][i].op \in {"GetObject", "HeadObject"})
    /\ [][(frameVars' # frameVars \/ setter' # setter) => originVars' = originVars]_vars

\* A PutObject over a key the origin holds too: the origin keeps its own object.
C14_Witness ==
    \E p \in Clients :
        /\ Done(p, "PutObject")
        /\ ret[p].err = NoError
        /\ OriginHolds(p)
        /\ OriginObject(p).body # localObjects[<<req[p].bucket, req[p].key>>].body

\* A client's delete call on bucket b is made in this step.
DeleteStep(b) ==
    \E p \in Clients :
        /\ pc[p] = "idle"
        /\ pc'[p] = "done"
        /\ req'[p].op \in {"DeleteObject", "DeleteMulti", "DeleteBucket", "ForceDeleteBucket"}
        /\ req'[p].bucket = b

\* C15: a GetObject that succeeded leaves the key in the cache; a key in the
\* cache stays there through every step that is not a client's delete on its
\* bucket; and a GetObject for a key in the cache makes no origin call
\* whatever the origin holds or answers, and succeeds (no store fault, a
\* range the object has).
C15_CachedKeyServedWithoutOrigin ==
    /\ [](\A p \in Clients :
             (Done(p, "GetObject") /\ ret[p].err = NoError) =>
                 localObjects[<<req[p].bucket, req[p].key>>].present)
    /\ [][\A b \in Buckets, k \in Keys :
             (localObjects[<<b, k>>].present /\ ~DeleteStep(b)) =>
                 localObjects'[<<b, k>>].present]_vars
    /\ [](\A p \in Clients :
             (req[p].op = "GetObject" /\ PreObject(p).present) =>
                 /\ awsCalls[p] = <<>>
                 /\ ( /\ pc[p] = "done"
                      /\ NoFault(p)
                      /\ RangeSatisfiable(req[p].rangeRequest, Len(PreObject(p).body)) ) =>
                       ret[p].err = NoError)

\* A GetObject served from the cache after the origin's bucket is gone.
C15_Witness ==
    \E p \in Clients :
        /\ Done(p, "GetObject")
        /\ PreObject(p).present
        /\ MappedBucket(p) \notin awsBuckets
        /\ awsCalls[p] = <<>>
        /\ ret[p].err = NoError

\* C16: while a client's successful PutObject of (bucket, key) is the last
\* client write of that key (the client has not returned yet), no step of
\* another client's GetObject changes what the cache holds under that key.
C16_PutNotOverwrittenByPopulate ==
    [][\A p, q \in Clients :
          ( /\ Done(p, "PutObject")
            /\ ret[p].err = NoError
            /\ req[q].op = "GetObject"
            /\ req[q].bucket = req[p].bucket
            /\ req[q].key = req[p].key
            /\ pc'[q] # pc[q] ) =>
              localObjects'[<<req[p].bucket, req[p].key>>] =
                  localObjects[<<req[p].bucket, req[p].key>>]]_vars

\* The origin bucket a whole mapping gives a local bucket.
Lookup(mapping, localBucket) ==
    IF localBucket \in DOMAIN mapping THEN mapping[localBucket] ELSE localBucket

\* The mapping before and after the SetBucketMappings call in progress
\* (the current mapping when none is).
MappingBefore == IF setter.pc = "idle" THEN bucketMapping ELSE setter.before
MappingAfter == IF setter.pc = "idle" THEN bucketMapping ELSE setter.mappings

LookupLabels == {"GetObject_awsBucketName", "HeadObject_awsBucketName"}

\* C17: with SetBucketMappings calls running beside GetObject, HeadObject and
\* CopyObject calls, every lookup gives the name the whole mapping from
\* before the SetBucketMappings call in progress gives, or the name the whole
\* mapping from after it gives; b.mu is free only when no map is half built;
\* and a call that has reached its lookup gets past it.
C17_MappingNeverTorn ==
    /\ [][\A p \in Clients :
             (pc[p] \in LookupLabels /\ pc'[p] \notin LookupLabels) =>
                 awsBucket'[p] \in {Lookup(MappingBefore, req[p].bucket),
                                    Lookup(MappingAfter, req[p].bucket)}]_vars
    /\ [](mu = "unlocked" => setter.pc = "idle")
    /\ (pc[MainClient] \in LookupLabels) ~> (pc[MainClient] \notin LookupLabels)

\* A GetObject waiting at its lookup while a mapping that replaces a
\* non-empty one is half built.
C17_Witness ==
    /\ pc[MainClient] = "GetObject_awsBucketName"
    /\ setter.pc = "range"
    /\ setter.todo # {}
    /\ DOMAIN setter.before # {}
    /\ DOMAIN bucketMapping # DOMAIN setter.mappings
    /\ mu = "Lock"

\* C18: whenever a lookup can run (b.mu is free), awsBucketName gives every
\* bucket name, mapped or not, known or not, a name: the mapping's entry when
\* there is one, the name itself otherwise, never the empty name; and the
\* name a call in flight was given is that one.
C18_LookupTotal ==
    /\ mu = "unlocked" =>
          \A b \in Buckets \cup {"other"} :
              /\ awsBucketName(b) # ""
              /\ b \in DOMAIN bucketMapping => awsBucketName(b) = bucketMapping[b]
              /\ b \notin DOMAIN bucketMapping => awsBucketName(b) = b
    /\ \A p \in Clients :
          pc[p] \in {"GetObject_aws", "HeadObject_aws"} =>
              awsBucket[p] = (IF req[p].bucket \in DOMAIN bucketMapping
                              THEN bucketMapping[req[p].bucket]
                              ELSE req[p].bucket)

\* A lookup of "prod" under a mapping that has an entry for "dev" only.
C18_Witness ==
    \E p \in Clients :
        /\ pc[p] = "HeadObject_aws"
        /\ req[p].bucket = "prod"
        /\ DOMAIN bucketMapping = {"dev"}
        /\ awsBucket[p] = "prod"

\* C19: nothing holds a second miss back or shares a first one's fetch: a
\* GetObject that missed can make its origin call whatever the other client
\* is doing, and every GetObject past its origin call has made its own origin
\* call, and past its cache write its own PutObject.
C19_ConcurrentMissesNotDeduplicated ==
    \A p \in Clients :
        /\ pc[p] = "GetObject_aws" => ENABLED GetObject_aws(p)
        /\ pc[p] \in {"GetObject_cache", "GetObject_return"} =>
              /\ Len(awsCalls[p]) = 1
              /\ awsCalls[p][1].op = "GetObject"
        /\ pc[p] = "GetObject_return" =>
              /\ Len(localCalls[p]) = 2
              /\ localCalls[p][2].op = "PutObject"
              /\ localCalls[p][2].err = NoError

\* Two GetObject calls for the same absent key: both fetched, both wrote.
C19_Witness ==
    /\ \A p \in Clients :
          /\ req[p].op = "GetObject"
          /\ ~PreObject(p).present
          /\ Len(awsCalls[p]) = 1
          /\ awsCalls[p][1].err = NoError
          /\ Len(localCalls[p]) >= 2
          /\ localCalls[p][2].op = "PutObject"
          /\ localCalls[p][2].err = NoError
    /\ \A p, q \in Clients : req[p].bucket = req[q].bucket /\ req[p].key = req[q].key

\* The number of calls of a method in a call log.
CountCalls(log, op) == Cardinality({i \in 1..Len(log) : log[i].op = op})

\* C20: a GetObject (also the one inside CopyObject) makes at most one origin
\* call and at most one PutObject on the cache store; one that found the key
\* in the cache makes none of either; one that missed and returned success
\* made exactly one of each.
C20_OneFetchOnePutPerMiss ==
    \A p \in Clients :
        req[p].op \in {"GetObject", "CopyObject"} =>
            /\ Len(awsCalls[p]) <= 1
            /\ CountCalls(localCalls[p], "PutObject") <= 1
            /\ (Len(localCalls[p]) >= 1 /\ localCalls[p][1].err = NoError) =>
                  /\ awsCalls[p] = <<>>
                  /\ CountCalls(localCalls[p], "PutObject") = 0
            /\ ( /\ Done(p, "GetObject")
                 /\ ret[p].err = NoError
                 /\ localCalls[p][1].err # NoError ) =>
                  /\ Len(awsCalls[p]) = 1
                  /\ awsCalls[p][1].op = "GetObject"
                  /\ CountCalls(localCalls[p], "PutObject") = 1

\* A ranged GetObject that missed: one origin fetch, one PutObject, two cache reads.
C20_Witness ==
    \E p \in Clients :
        /\ Done(p, "GetObject")
        /\ req[p].rangeRequest.set
        /\ ret[p].err = NoError
        /\ Len(awsCalls[p]) = 1
        /\ CountCalls(localCalls[p], "PutObject") = 1
        /\ CountCalls(localCalls[p], "GetObject") = 2

\* C21: populating the cache is not atomic with a DeleteObject of the same
\* key: between a GetObject's successful cache write and its final cache read
\* an idle client's DeleteObject is never held back, and a GetObject that
\* fetched and wrote successfully returns whatever that final read reported,
\* KeyNotFound when the delete came first.
C21_PopulateNotAtomicWithDelete ==
    \A p \in Clients :
        /\ pc[p] = "GetObject_return" =>
              \A q \in Clients \ {p} :
                  Idle(q) => ENABLED (DeleteObject(q) /\ Focused(q)')
        /\ (Done(p, "GetObject") /\ Len(localCalls[p]) = 3) =>
              /\ awsCalls[p][1].err = NoError
              /\ localCalls[p][2].op = "PutObject"
              /\ localCalls[p][2].err = NoError
              /\ ret[p].err = localCalls[p][3].err

\* The delete won the race: the origin fetch and the cache write succeeded,
\* the GetObject returned KeyNotFound and the key is absent from the cache.
C21_Witness ==
    \E p \in Clients :
        /\ Done(p, "GetObject")
        /\ Len(awsCalls[p]) = 1
        /\ awsCalls[p][1].err = NoError
        /\ Len(localCalls[p]) = 3
        /\ localCalls[p][2].op = "PutObject"
        /\ localCalls[p][2].err = NoError
        /\ ret[p].err = KeyNotFound(req[p].key)
        /\ ~localObjects[<<req[p].bucket, req[p].key>>].present
        /\ \E q \in Clients \ {p} :
              /\ Done(q, "DeleteObject")
              /\ req[q].bucket = req[p].bucket
              /\ req[q].key = req[p].key
              /\ ret[q].err = NoError

\* C22: every origin call of GetObject and HeadObject is bounded by a
\* deadline, so no call hangs: a call in flight always has a next statement
\* to run, be it acting on the origin's answer or returning the error of
\* the deadline.
C22_OriginCallBounded ==
    \A p \in Clients :
        (pc[p] \notin {"idle", "done"} /\ setter.pc = "idle") => ENABLED Handler(p)

\* C23: a DeleteObject addressed to an existing bucket that met no fault has
\* returned no error whether or not the key was there, the store is what it
\* was with the key absent, and deleting the same key once more gives the
\* same result and leaves the store as it is.
C23_DeleteObjectIdempotent ==
    \A p \in Clients :
        ( /\ Done(p, "DeleteObject")
          /\ req[p].bucket \in pre[p].buckets
          /\ NoFault(p) ) =>
            /\ ret[p].err = NoError
            /\ localObjects =
                   [pre[p].objects EXCEPT ![<<req[p].bucket, req[p].key>>] = Absent]
            /\ localBuckets = pre[p].buckets
            /\ local_DeleteObject(req[p].bucket, req[p].key, "none") =
                   [err |-> ret[p].err, objects |-> localObjects]

\* A DeleteObject of a key its bucket did not hold, while another bucket's
\* object stays.
C23_Witness ==
    \E p \in Clients :
        /\ Done(p, "DeleteObject")
        /\ req[p].bucket \in pre[p].buckets
        /\ ~PreObject(p).present
        /\ NoFault(p)
        /\ ret[p].err = NoError
        /\ \E bk \in Buckets \X Keys : localObjects[bk].present

\* The errors an SDK call can give, and the names a translation is given.
SdkCodes ==
    {"NoSuchBucket", "NoSuchKey", "NotFound", "InternalError", "BucketAlreadyOwnedByYou",
     "BucketNotEmpty"}
SdkErrors == {NoError, SdkTransportError, IoError} \cup {SdkApiError(c) : c \in SdkCodes}
GivenNames == {""} \cup Buckets \cup Keys

\* C24: the translator gives nil for nil, BucketNotFound of the given bucket
\* for the code NoSuchBucket, KeyNotFound of the given key for NoSuchKey, an
\* error of the same code for any other code, and the error itself when it
\* has no code; so every error a call on the LocalStack store has returned
\* is one of these outcomes for the bucket and key the call was given.
C24_ErrorTranslation ==
    /\ \A err \in SdkErrors, b \in GivenNames, k \in GivenNames :
          LET out == s3ErrorToGofakes3(err, b, k) IN
          /\ (err = NoError) => out = NoError
          /\ (err # NoError /\ s3ErrorCode(err) = "NoSuchBucket") => out = BucketNotFound(b)
          /\ (err # NoError /\ s3ErrorCode(err) = "NoSuchKey") => out = KeyNotFound(k)
          /\ (err # NoError /\ s3ErrorCode(err) \notin {"", "NoSuchBucket", "NoSuchKey"}) =>
                out = ErrorCode(s3ErrorCode(err))
          /\ (err # NoError /\ s3ErrorCode(err) = "") => out = err
    /\ \A p \in Clients :
          backend = "localstack" =>
              \A i \in 1..Len(localCalls[p]) :
                  LET c == localCalls[p][i] IN
                  /\ c.err.kind # "smithy.APIError"
                  /\ c.err.kind = "ErrorCode" => c.err.code \notin {"", "NoSuchBucket", "NoSuchKey"}
                  /\ (c.err.kind = "ErrorResponse" /\ c.op # "CopyObject") =>
                        c.err \in {BucketNotFound(c.bucket), KeyNotFound(c.key)}
                  /\ (c.err.kind = "ErrorResponse" /\ c.op = "CopyObject") =>
                        c.err \in {BucketNotFound(""), KeyNotFound("")}

\* Calls on the LocalStack store: a DeleteMulti that met a transport error
\* returned it as it was.
C24_Witness ==
    \E p \in Clients :
        /\ backend = "localstack"
        /\ Done(p, "DeleteMulti")
        /\ localCalls[p][1].err = SdkTransportError
        /\ ret[p].err = SdkTransportError

\* C25: the translator keeps a generic NotFound as the error of code
\* NotFound whatever names it is given, and a HeadObject on the LocalStack
\* store that met no fault and found the key or the bucket missing has
\* reported that NotFound; no HeadObject on that store has reported
\* BucketNotFound or KeyNotFound.
C25_GenericNotFoundPreserved ==
    /\ \A b \in GivenNames, k \in GivenNames :
          s3ErrorToGofakes3(SdkApiError("NotFound"), b, k) = ErrorCode("NotFound")
    /\ \A p \in Clients :
          \A i \in 1..Len(localCalls[p]) :
              LET c == localCalls[p][i] IN
              (backend = "localstack" /\ c.op = "HeadObject") =>
                  /\ c.err.kind # "ErrorResponse"
                  /\ c.err.code \notin {"NoSuchBucket", "NoSuchKey"}
                  /\ ( /\ i = 1
                       /\ ~IsFault(c.err)
                       /\ \/ c.bucket \notin pre[p].buckets
                          \/ ~pre[p].objects[<<c.bucket, c.key>>].present ) =>
                        c.err = ErrorCode("NotFound")

\* A HeadObject on the LocalStack store for a key of a bucket the store
\* does not have: the generic NotFound came back.
C25_Witness ==
    \E p \in Clients :
        /\ backend = "localstack"
        /\ Done(p, "HeadObject")
        /\ req[p].bucket \notin pre[p].buckets
        /\ localCalls[p][1].op = "HeadObject"
        /\ localCalls[p][1].err = ErrorCode("NotFound")
        /\ ret[p].err = ErrorCode("NotFound")

\* C29: when SetBucketMappings(mappings) returns, the mapping is mappings and
\* nothing else: a lookup of a bucket with an entry gives the entry, and a
\* lookup of a bucket without one gives the bucket's own name, whatever the
\* mapping before the call held for it.
C29_SetBucketMappingsReplacesAll ==
    [][SetBucketMappings_Unlock =>
          /\ bucketMapping' = setter.mappings
          /\ \A b \in Buckets \cup {"other"} :
                awsBucketName(b)' = IF b \in DOMAIN setter.mappings
                                    THEN setter.mappings[b]
                                    ELSE b]_vars

\* A SetBucketMappings about to return whose argument has no entry for a
\* bucket the mapping before the call had one for.
C29_Witness ==
    /\ setter.pc = "range"
    /\ setter.todo = {}
    /\ \E b \in Buckets :
          /\ b \in DOMAIN setter.before
          /\ setter.before[b] # b
          /\ b \notin DOMAIN setter.mappings
          /\ b \notin DOMAIN bucketMapping
    /\ DOMAIN setter.mappings # {}

\* C30: a HeadObject that met no fault, for a key the cache did not hold
\* and the origin holds, has queried the origin and returned success,
\* whichever way the cache store reports the absence.
C30_HeadObjectFallsBackOnEveryAbsence ==
    \A p \in Clients :
        ( /\ Done(p, "HeadObject")
          /\ NoFault(p)
          /\ \/ req[p].bucket \notin pre[p].buckets
             \/ ~PreObject(p).present
          /\ OriginHolds(p) ) =>
            /\ Len(awsCalls[p]) = 1
            /\ awsCalls[p][1].op = "HeadObject"
            /\ ret[p].err = NoError

\* C26: every request LocalStackBackend.CreateBucket has sent names the
\* bucket it was called for, carries no location constraint when the
\* configured region is us-east-1, and carries the configured region as its
\* location constraint when another region is configured.
C26_LocationConstraintByRegion ==
    /\ Len(main.requests) <= Len(main.log)
    /\ \A i \in 1..Len(main.requests) :
          LET input == main.requests[i]
              region == main.cfg.AWSRegion IN
          /\ backend = "localstack"
          /\ input.Bucket = main.log[i].bucket
          /\ region = "us-east-1" => input.LocationConstraint = NoValue
          /\ region \notin {"", "us-east-1"} => input.LocationConstraint = region

\* The init bucket of a LocalStack store configured for eu-west-1 was
\* created by a request with that location constraint.
C26_Witness ==
    /\ main.cfg.AWSRegion = "eu-west-1"
    /\ Len(main.requests) >= 1
    /\ main.requests[1] = [Bucket |-> "dev", LocationConstraint |-> "eu-west-1"]
    /\ main.log[1].err = NoError
    /\ "dev" \in localBuckets

\* The backend types of the README and of TestCreateLocalBackend_*.
DocumentedBackendTypes == {"disk", "memory", "localstack"}

\* C27: once createLocalBackend has been called, it has returned a backend
\* and no error when the configured type is disk (unless the data directory
\* could not be created), memory or localstack, and an error and no backend
\* for any other type; the type of the default configuration is accepted.
C27_DocumentedBackendTypesAccepted ==
    /\ DefaultConfig.BackendType \in DocumentedBackendTypes
    /\ ( /\ main.pc \notin {"LoadConfig", "createAWSClient", "createLocalBackend", "serving"}
         /\ main.err # LoadDefaultConfigError ) =>
          IF main.cfg.BackendType \in DocumentedBackendTypes
          THEN \/ main.err = NoError /\ main.local # NoBackend /\ main.pc # "Fatalf"
               \/ main.cfg.BackendType = "disk" /\ main.err = MkdirAllError
          ELSE main.err # NoError /\ main.local = NoBackend /\ main.pc = "Fatalf"

\* The value of a setting by the priority: the environment's value when it
\* is set, else the file's when the file was read and parsed and has the
\* field, else the default.
FileParsed == main.env.S3LAZY_CONFIG_FILE # "" /\ main.file.status = "ok"
Resolved(fromEnv, unset, field, default) ==
    IF fromEnv # unset THEN fromEnv
    ELSE IF FileParsed /\ field \in DOMAIN main.file.data THEN main.file.data[field]
    ELSE default

\* The names and the mappings the two lists of the environment stand for.
InitBucketsOf(s) ==
    CASE s = <<>> -> <<>>
      [] s = <<"dev">> -> <<"dev">>
      [] s = <<" ", "dev", " ", ",", ",", "prod">> -> <<"dev", "prod">>
BucketMapOf(s) ==
    CASE s = <<>> -> <<>>
      [] s = <<"dev", ":", "prod">> -> [b \in {"dev"} |-> "prod"]
      [] s = <<" ", "dev", " ", ":", " ", "dev", ",", "prod">> -> [b \in {"dev"} |-> "dev"]

\* C28: the configuration LoadConfig returned holds, for every setting, the
\* environment's value when the variable is set, else the config file's
\* value when the file was read and parsed and has the field, else the
\* built-in default (S3LAZY_AWS_REGION before AWS_REGION); a file that
\* cannot be read or parsed changes nothing.
C28_EnvOverFileOverDefault ==
    main.pc \notin {"LoadConfig", "serving"} =>
        LET env == main.env
            cfg == main.cfg
            d == DefaultConfig IN
        /\ cfg.ListenAddr = Resolved(env.S3LAZY_LISTEN_ADDR, "", "listen_addr", d.ListenAddr)
        /\ cfg.BackendType = Resolved(env.S3LAZY_BACKEND, "", "backend_type", d.BackendType)
        /\ cfg.DataDir = Resolved(env.S3LAZY_DATA_DIR, "", "data_dir", d.DataDir)
        /\ cfg.LocalStackEndpoint =
              Resolved(env.S3LAZY_LOCALSTACK_ENDPOINT, "", "localstack_endpoint",
                       d.LocalStackEndpoint)
        /\ cfg.AWSRegion =
              Resolved(IF env.S3LAZY_AWS_REGION # "" THEN env.S3LAZY_AWS_REGION
                       ELSE env.AWS_REGION,
                       "", "aws_region", d.AWSRegion)
        /\ cfg.InitBuckets =
              Resolved(InitBucketsOf(env.S3LAZY_INIT_BUCKETS), <<>>, "init_buckets",
                       d.InitBuckets)
        /\ cfg.BucketMappings =
              Resolved(BucketMapOf(env.S3LAZY_BUCKET_MAP), <<>>, "bucket_mappings",
                       d.BucketMappings)

\* C31: once a populate has written (bucket, key) to the cache, for a
\* GetObject with or without a range and for the one inside CopyObject, the
\* cache holds under that key the origin's whole object, and an un-ranged
\* read of the key gives the whole content.
C31_CacheNeverHoldsPartialObject ==
    \A p \in Clients :
        ( /\ pc[p] = "GetObject_return" \/ Done(p, "GetObject")
          /\ \E i \in 1..Len(localCalls[p]) :
                localCalls[p][i].op = "PutObject" /\ localCalls[p][i].err = NoError ) =>
            LET o == OriginObject(p)
                c == localObjects[<<req[p].bucket, req[p].key>>]
                r == local_GetObject(req[p].bucket, req[p].key, NoRange, "none") IN
            /\ OriginHolds(p)
            /\ c.present
            /\ c.body = o.body
            /\ r.err = NoError
            /\ r.obj.Contents = o.body
            /\ r.obj.Size = Len(o.body)

\* A GetObject for the last byte of a two-byte object the origin alone
\* held: one byte returned, two bytes cached.
C31_Witness ==
    \E p \in Clients :
        /\ Done(p, "GetObject")
        /\ req[p].rangeRequest = EndRange(1)
        /\ ~PreObject(p).present
        /\ ret[p].err = NoError
        /\ Len(ret[p].obj.Contents) = 1
        /\ Len(localObjects[<<req[p].bucket, req[p].key>>].body) = 2
        /\ localObjects[<<req[p].bucket, req[p].key>>].body = OriginObject(p).body

\* C32: with concurrent GetObject calls on one key the cache lacked and the
\* origin holds, and nothing else touching the key, every call that has
\* returned has returned the origin's content without error, from then on
\* the cache holds the origin's object under the key, and a call that found
\* the key cached made no origin call.
C32_ConcurrentMissesAllReturnOrigin ==
    \A p \in Clients :
        LET o == OriginObject(p)
            c == localObjects[<<req[p].bucket, req[p].key>>] IN
        /\ Done(p, "GetObject") =>
              /\ ret[p].err = NoError
              /\ ret[p].obj.Name = req[p].key
              /\ ret[p].obj.Contents = o.body
              /\ ret[p].obj.Size = Len(o.body)
              /\ ret[p].obj.Metadata.ContentType = o.ContentType
        /\ (pc[p] = "GetObject_return" \/ Done(p, "GetObject")) =>
              /\ c.present
              /\ c.body = o.body
              /\ c.ContentType = o.ContentType

\* Both clients missed, both fetched, both wrote, both returned the origin's
\* content.
C32_Witness ==
    /\ \A p \in Clients :
          /\ Done(p, "GetObject")
          /\ ~PreObject(p).present
          /\ Len(awsCalls[p]) = 1
          /\ Len(localCalls[p]) = 3
          /\ ret[p].err = NoError
          /\ ret[p].obj.Contents = OriginObject(p).body
    /\ localObjects[<<"dev", "k">>].body = awsObjects[<<"dev", "k">>].body

\* The delete of client q has removed (bucket, key) from the cache: the
\* cache held the key when the call began and the call returned no error.
Removed(q, b, k) ==
    /\ pc[q] = "done"
    /\ ret[q].err = NoError
    /\ req[q].bucket = b
    /\ pre[q].objects[<<b, k>>].present
    /\ \/ req[q].op = "DeleteObject" /\ req[q].key = k
       \/ req[q].op = "DeleteMulti" /\ k \in req[q].objects

\* C33: a local deletion leaves no tombstone. Once a DeleteObject or a
\* DeleteMulti has removed a key from the cache, the GetObject of the key that
\* began after it with the key still gone found the slot exactly as that of
\* a key never cached, missed the cache, fetched the object from the origin with one
\* call, wrote it to the cache again and returned the origin's content.
C33_DeleteLeavesNoTombstone ==
    \A p \in Clients : \A q \in Clients \ {p} :
        ( /\ Done(p, "GetObject")
          /\ Removed(q, req[p].bucket, req[p].key)
          /\ ~PreObject(p).present
          /\ OriginHolds(p) ) =>
            LET o == OriginObject(p)
                c == localObjects[<<req[p].bucket, req[p].key>>] IN
            /\ PreObject(p) = Absent
            /\ localCalls[p][1].op = "GetObject"
            /\ localCalls[p][1].err = KeyNotFound(req[p].key)
            /\ Len(awsCalls[p]) = 1
            /\ awsCalls[p][1].err = NoError
            /\ Len(localCalls[p]) = 3
            /\ localCalls[p][2].op = "PutObject"
            /\ localCalls[p][2].err = NoError
            /\ c.present
            /\ c.body = o.body
            /\ c.ContentType = o.ContentType
            /\ ret[p].err = NoError
            /\ ret[p].obj.Contents = o.body

\* A DeleteMulti removed the cached key, and the GetObject that began after
\* it fetched the object from the origin and cached it again.
C33_Witness ==
    \E p \in Clients : \E q \in Clients \ {p} :
        /\ Done(p, "GetObject")
        /\ req[q].op = "DeleteMulti"
        /\ Removed(q, req[p].bucket, req[p].key)
        /\ PreObject(p) = Absent
        /\ Len(awsCalls[p]) = 1
        /\ Len(localCalls[p]) = 3
        /\ ret[p].err = NoError
        /\ localObjects[<<req[p].bucket, req[p].key>>].present

\* The same after a DeleteObject.
C33_WitnessDeleteObject ==
    \E p \in Clients : \E q \in Clients \ {p} :
        /\ Done(p, "GetObject")
        /\ req[q].op = "DeleteObject"
        /\ Removed(q, req[p].bucket, req[p].key)
        /\ PreObject(p) = Absent
        /\ Len(awsCalls[p]) = 1
        /\ ret[p].err = NoError
        /\ localObjects[<<req[p].bucket, req[p].key>>].present

\* C34: GetObject, HeadObject and CopyObject never create a bucket in the
\* cache store: during and after such a call the cache has the buckets it had
\* when the call began.  A GetObject for an object the origin holds, whose
\* bucket the cache lacks, with no store fault, has made one origin call,
\* tried the cache write, returned "failed to cache <bucket>/<key>" wrapping
\* the store's missing-bucket error, and left the cache without the bucket
\* and without the object.
C34_ReadsNeverCreateBuckets ==
    \A p \in Clients :
        /\ req[p].op \in {"GetObject", "HeadObject", "CopyObject"} =>
              localBuckets = pre[p].buckets
        /\ ( /\ Done(p, "GetObject")
             /\ req[p].bucket \notin pre[p].buckets
             /\ OriginHolds(p)
             /\ NoFault(p) ) =>
               /\ ReportedAbsent(p)
               /\ Len(awsCalls[p]) = 1
               /\ awsCalls[p][1].err = NoError
               /\ Len(localCalls[p]) = 2
               /\ localCalls[p][2].op = "PutObject"
               /\ localCalls[p][2].err = BucketNotFound(req[p].bucket)
               /\ ret[p].err =
                      FailedToCache(req[p].bucket, req[p].key, BucketNotFound(req[p].bucket))
               /\ ret[p].obj = NoObject
               /\ req[p].bucket \notin localBuckets
               /\ ~localObjects[<<req[p].bucket, req[p].key>>].present

\* The origin was asked and answered, the caching failed for want of the
\* bucket, and the cache still has neither the bucket nor the object.
C34_Witness ==
    \E p \in Clients :
        /\ Done(p, "GetObject")
        /\ req[p].bucket \notin pre[p].buckets
        /\ OriginHolds(p)
        /\ Len(awsCalls[p]) = 1
        /\ awsCalls[p][1].err = NoError
        /\ ret[p].err = FailedToCache(req[p].bucket, req[p].key, BucketNotFound(req[p].bucket))
        /\ req[p].bucket \notin localBuckets

\* A CopyObject and a HeadObject whose bucket the cache lacks left it lacking.
C34_WitnessCopyAndHead ==
    /\ \E p \in Clients :
          /\ pc[p] = "done"
          /\ req[p].op \in {"CopyObject", "HeadObject"}
          /\ req[p].bucket \notin localBuckets
          /\ Len(awsCalls[p]) = 1

\* C35: a CopyObject whose source the cache store reported absent and the
\* origin does not hold has returned KeyNotFound for the source key, the
\* error of its internal GetObject, after one cache read and one origin
\* call; the cache store's CopyObject was never called, the destination key
\* is absent if it was, and the cache is what it was when the call began.
C35_CopyObjectOfUnknownSourceFails ==
    \A p \in Clients :
        ( /\ Done(p, "CopyObject")
          /\ ReportedAbsent(p)
          /\ ~OriginHolds(p)
          /\ NoFault(p) ) =>
            LET dst == <<req[p].dstBucket, req[p].dstKey>> IN
            /\ ret[p].err = KeyNotFound(req[p].key)
            /\ ret[p].obj = NoObject
            /\ Len(localCalls[p]) = 1
            /\ localCalls[p][1].op = "GetObject"
            /\ \A i \in 1..Len(localCalls[p]) : localCalls[p][i].op # "CopyObject"
            /\ Len(awsCalls[p]) = 1
            /\ awsCalls[p][1].err # NoError
            /\ localObjects[dst] = pre[p].objects[dst]
            /\ ~pre[p].objects[dst].present => ~localObjects[dst].present
            /\ CacheUntouched(p)

\* The source is in neither store, the destination bucket exists and the
\* destination key is still absent.
C35_Witness ==
    \E p \in Clients :
        /\ Done(p, "CopyObject")
        /\ req[p].bucket \in localBuckets
        /\ req[p].dstBucket \in localBuckets
        /\ ~PreObject(p).present
        /\ MappedBucket(p) \in awsBuckets
        /\ ~OriginObject(p).present
        /\ NoFault(p)
        /\ ret[p].err = KeyNotFound(req[p].key)
        /\ ~localObjects[<<req[p].dstBucket, req[p].dstKey>>].present

\* C36: every payload stream the orchestrator opened and did not hand to
\* its caller is closed before the operation returns: a call that has
\* returned owes no Close, neither of the origin's response body nor of the
\* payload of the source object that CopyObject's internal GetObject
\* obtained.
C36_StreamsClosedBeforeReturn ==
    \A p \in Clients : pc[p] = "done" => open[p] = {}

\* The origin's part of C36: after a successful fetch the response body is
\* closed on every path by which GetObject returns, and is open only between
\* the fetch and the return.
C36_OriginBodyClosedBeforeReturn ==
    \A p \in Clients :
        /\ pc[p] \in {"idle", "done", "CopyObject_local"} => "awsObj.Body" \notin open[p]
        /\ pc[p] \in {"GetObject_cache", "GetObject_return"} => "awsObj.Body" \in open[p]

\* A GetObject whose cache write failed after the fetch has returned with
\* the origin's body closed.
C36_OriginBodyWitness ==
    \E p \in Clients :
        /\ Done(p, "GetObject")
        /\ Len(awsCalls[p]) = 1
        /\ awsCalls[p][1].err = NoError
        /\ ret[p].err.kind = "wrapError"
        /\ open[p] = {}

\* Request i of the ForceDeleteBucket call failed.
FdbFailed(i) == fdb.requests[i].err # NoError

\* C37: ForceDeleteBucket lists the bucket and deletes its objects page by
\* page, every DeleteObjects carrying the keys (at most a page) of the listing
\* just before it; the bucket delete is its last request and is issued only
\* after every listing and every object deletion succeeded, when no object is
\* left; the first request that failed was the last one issued and its
\* translated error is what the call returned; and after a return without
\* error the bucket does not exist.
C37_ForceDeleteBucketPageByPage ==
    LET n == Len(fdb.requests) IN
    /\ \A i \in 1..n :
          /\ FdbFailed(i) => i = n /\ fdb.pc = "done"
          /\ fdb.requests[i].op = "DeleteObjects" =>
                /\ i > 1
                /\ fdb.requests[i - 1].op = "ListObjectsV2"
                /\ fdb.requests[i].keys # {}
                /\ Cardinality(fdb.requests[i].keys) <= MaxKeys
          /\ fdb.requests[i].op = "DeleteBucket" =>
                /\ i = n
                /\ fdb.pc = "done"
                /\ \A j \in 1..(i - 1) : ~FdbFailed(j)
                /\ fdb.keys = {}
                /\ \E j \in 1..(i - 1) : fdb.requests[j].op = "ListObjectsV2"
    /\ fdb.pc = "done" =>
          /\ n >= 1
          /\ fdb.err = s3ErrorToGofakes3(fdb.requests[n].err, fdb.name, "")
          /\ fdb.err = NoError =>
                /\ fdb.requests[n].op = "DeleteBucket"
                /\ ~fdb.exists
                /\ fdb.keys = {}

\* A bucket of more objects than two pages hold: two listings, two object
\* deletions and a last listing went before the bucket delete, and the
\* bucket is gone.
C37_Witness ==
    /\ fdb.pc = "done"
    /\ fdb.err = NoError
    /\ ~fdb.exists
    /\ Len(fdb.requests) >= 5
    /\ Cardinality({i \in 1..Len(fdb.requests) : fdb.requests[i].op = "DeleteObjects"}) = 2
    /\ fdb.requests[Len(fdb.requests)].op = "DeleteBucket"

\* The second page's deletion failed: its translated error was returned, no
\* bucket delete was issued, and the bucket still holds the second page.
C37_WitnessFailure ==
    /\ fdb.pc = "done"
    /\ Len(fdb.requests) = 4
    /\ fdb.requests[4].op = "DeleteObjects"
    /\ fdb.err = ErrorCode("InternalError")
    /\ fdb.exists
    /\ fdb.keys # {}

\* The origin bucket the configuration maps a local bucket to.
ConfiguredOrigin(b) ==
    IF b \in DOMAIN main.cfg.BucketMappings THEN main.cfg.BucketMappings[b] ELSE b

\* C38: at startup the configured mapping is installed before any init
\* bucket is created and before the server accepts requests: once a
\* CreateBucket of the init loop has run, and while the server serves, the
\* LazyBackend's mapping is the configured one; a request is in progress only
\* while the server serves; and every origin bucket a request resolved, and
\* every origin call it made, is the one the configured mapping gives.
C38_MappingInstalledBeforeServing ==
    /\ (main.log # <<>> \/ main.pc = "ListenAndServe") =>
          bucketMapping = main.cfg.BucketMappings
    /\ \A p \in Clients :
          /\ pc[p] # "idle" => main.pc = "ListenAndServe"
          /\ pc[p] \in {"GetObject_aws", "GetObject_cache", "GetObject_return",
                         "HeadObject_aws"} =>
                awsBucket[p] = ConfiguredOrigin(req[p].bucket)
          /\ \A i \in 1..Len(awsCalls[p]) :
                awsCalls[p][i].bucket = ConfiguredOrigin(req[p].bucket)

\* Mappings are configured, an init bucket was created, the server serves
\* and a request for a mapped bucket went to the origin bucket of the mapping.
C38_Witness ==
    \E p \in Clients :
        /\ main.pc = "ListenAndServe"
        /\ main.log # <<>>
        /\ req[p].bucket \in DOMAIN main.cfg.BucketMappings
        /\ main.cfg.BucketMappings[req[p].bucket] # req[p].bucket
        /\ Len(awsCalls[p]) = 1
        /\ awsCalls[p][1].bucket = main.cfg.BucketMappings[req[p].bucket]

\* The shutdown vocabulary: a signal was delivered, the process has ended,
\* "Server stopped" was logged.
Signalled == shutdown.signals >= 1
Terminated == shutdown.exit # "running"
ServerStopped == \E i \in 1..Len(shutdown.log) : shutdown.log[i] = "Server stopped"

\* C39: the shutdown begins only after a signal and runs under a context
\* with a deadline of 30 seconds; "Server stopped" is logged, and main
\* returns, only after server.Shutdown returned without error and done was
\* closed; and once a signal was delivered or the listener failed the
\* process terminates, be the shutdown clean or timed out.
C39_ShutdownBoundedAndTerminates ==
    /\ [](shutdown.go # "<-quit" => Signalled /\ shutdown.ctx.timeout = 30)
    /\ []((ServerStopped \/ main.pc = "return" \/ shutdown.exit = "return") =>
            /\ shutdown.done = "closed"
            /\ shutdown.go = "end"
            /\ shutdown.server = "inShutdown"
            /\ shutdown.conns = 0
            /\ ~(\E i \in 1..Len(shutdown.log) : shutdown.log[i] = "Server forced to shutdown"))
    /\ (Signalled \/ main.pc = "Fatalf") ~> Terminated

\* A clean shutdown: a client was served, its connection ended before the
\* deadline, main logged "Server stopped" and returned.
C39_Witness ==
    /\ shutdown.exit = "return"
    /\ shutdown.log = <<"Shutting down server...", "Server stopped">>
    /\ shutdown.served = 1
    /\ ~shutdown.ctx.expired
    /\ shutdown.done = "closed"

\* The shutdown timed out with a connection still active: the process exited
\* from log.Fatalf with done still open.
C39_WitnessTimeout ==
    /\ shutdown.exit = "os.Exit(1)"
    /\ shutdown.ctx.expired
    /\ shutdown.conns > 0
    /\ shutdown.done = "open"
    /\ ~ServerStopped

\* The listener failed: the process exited from log.Fatalf without a signal.
C39_WitnessListenFailure ==
    /\ shutdown.exit = "os.Exit(1)"
    /\ ~Signalled
    /\ main.pc = "Fatalf"

====
